---- MODULE Spec2Model ----
(***************************************************************************)
(* A model of taoslog's rolling file appender (src/src/writer.rs): the     *)
(* builder, make_writer_for / make_writer / rotate as run by concurrent    *)
(* logging threads, the retention worker (handle_old_files, compress), the *)
(* disk-space monitor, the wall clock and the log directory.               *)
(*                                                                         *)
(* Files.  A directory entry is [name, ino]: the name is the parsed form   *)
(* of "<comp>_<inst>_<YYYYMMDD>.log[.<seq>][.gz]" and ino identifies the   *)
(* file behind it, so that an open handle (the shared writer) can outlive  *)
(* the name it was opened under.  All dates of the model are valid         *)
(* calendar days, numbered.                                                *)
(*                                                                         *)
(* Time.  The clock counts ticks, TicksPerDay of them to a local day; in a  *)
(* zone with daylight saving one day a year is longer and one is shorter.   *)
(* Sizes count written records (one event or one marker line each).        *)
(***************************************************************************)
EXTENDS Integers, Sequences, FiniteSets, TLC

\* ------------------------------------------------------------------ bounds
NumThreads == 2
MaxCalls == 3
TicksPerDay == 2
MaxTicks == 1
MaxExtRemove == 1
MaxRotate == 2
FileSize == 1
MaxFree == 3
ReservedSize == 2
LoopFuel == 9
MaxSpans == 2
MaxEvents == 2
MaxFields == 2
NumLimbs == 6

\* ------------------------------------------------------- program constants
TimeDeltaDays == 1
ChannelCap == 1
FormatWidth == 18
U64Digits == 16
U64Limbs == 4
DefaultStopPct == 50

VARIABLES
    now,        \* wall clock, in ticks
    dir,        \* the log directory: a set of [name, ino]
    fsize,      \* fsize[i]: length of the file with ino i
    born,       \* born[i]: the name the file with ino i was created under
    otherBuilt, \* whether the process has built its other appender
    reCache,    \* the process-wide LOG_FILE_NAME_RE of parse_filename
    built,      \* whether build() has returned the appender
    config,     \* Config, fixed by build
    state,      \* State {next_date, max_seq_id, file_path}
    writer,     \* ino behind RwLock<File> writer
    chan,       \* the bounded(1) channel of HandleOldFileEvent
    free,       \* disk_available_space
    flag,       \* level_downgrade
    pc,         \* per thread: position inside make_writer_for
    lvl,        \* per thread: level of the event of the call in progress
    space,      \* per thread: current_disk_space loaded by the call
    stage,      \* per thread: which make_writer() runs: "down", "up", "final"
    newfile,    \* per thread: [name, ino] a rotation created, not yet installed
    wr,         \* per thread: ino behind the RwLockReadGuard it holds
    ret,        \* the retention worker
    ncalls,     \* number of make_writer_for calls started
    extRemoved, \* number of files removed from outside the process
    ntrans,     \* history: how often level_downgrade went up and down
    markers,    \* history: the marker lines written, in order
    lastLoop,   \* history: the last file-open retry loop that ran
    hiwater,    \* history: the newest file ever installed as the writer
    floor,      \* history: floor[t]: hiwater when thread t's call began
    dropped,    \* whether the RollingFileAppender value has been dropped
    monitor,    \* position of the disk monitor thread
    spans,      \* the registry: spans[i] is the span with id i
    entered,        \* the stack of the entered spans, the current span last
    line,       \* the last line assembled by on_event
    headers,    \* an HTTP HeaderMap: the values stored under "x-qid"
    schema,     \* a Schema's metadata: the value stored under "x-qid"
    lastGet,    \* the result of the last get_qid on a carrier
    arg,        \* the argument of the last call of a pure function
    result,     \* and what it returned
    zone        \* the local time zone: its days of irregular length

fsVars == <<now, dir, fsize, born, otherBuilt, reCache>>
appVars == <<built, config, state, writer, chan, free, flag>>
thrVars == <<pc, lvl, space, stage, newfile, wr>>
histVars == <<ncalls, extRemoved, ntrans, markers, lastLoop, hiwater, floor>>
lifeVars == <<dropped, monitor>>
layerVars == <<spans, entered, line>>
carrierVars == <<headers, schema, lastGet>>
callVars == <<arg, result>>
otherVars == <<layerVars, carrierVars, callVars, zone>>
appenderVars == <<fsVars, appVars, thrVars, ret, histVars, lifeVars>>
vars == <<appenderVars, otherVars>>

Threads == 1..NumThreads

\* ------------------------------------------------------------------ levels
Levels == {"ERROR", "WARN", "INFO", "DEBUG", "TRACE"}

\* tracing::Level's Ord: ERROR < WARN < INFO < DEBUG < TRACE
LevelOrd(l) ==
    CASE l = "ERROR" -> 1
      [] l = "WARN" -> 2
      [] l = "INFO" -> 3
      [] l = "DEBUG" -> 4
      [] l = "TRACE" -> 5

\* ------------------------------------------------------------------- names
Name(c, i, d, s, suf, gz) ==
    [comp |-> c, inst |-> i, date |-> d, seq |-> s, suffixed |-> suf, gz |-> gz]

NoName == Name("", 0, 0, 0, FALSE, FALSE)

Names(d) == {e.name : e \in d}

Exists(d, n) == n \in Names(d)

InoOf(d, n) == (CHOOSE e \in d : e.name = n).ino

\* Local: a zone without daylight saving, and the length of a local day
NoDst == [long |-> {}, short |-> {}]

DayLen(d) ==
    TicksPerDay + (IF d \in zone.long THEN 1 ELSE 0)
                - (IF d \in zone.short THEN 1 ELSE 0)

\* the tick of 00:00:00 local of day d
RECURSIVE DayStart(_)
DayStart(d) == IF d = 0 THEN 0 ELSE DayStart(d - 1) + DayLen(d - 1)

\* date_naive(): the local day a tick falls in
DayOf(t) == CHOOSE d \in 0..t : DayStart(d) <= t /\ t < DayStart(d + 1)

\* (variant: the day after the local day of now, as now.date_naive() + Days)
next_timestamp_calendar(t) == DayStart(DayOf(t) + TimeDeltaDays)

\* Rotation::next_timestamp: 00:00:00 local of the day of (now + time_delta),
\* time_delta being TimeDelta::days(1), 86400 seconds of elapsed time
next_timestamp(t) == DayStart(DayOf(t + TimeDeltaDays * TicksPerDay))

\* the two format! arms of build and of the time branch of rotate
BaseOrSeqName(cfg, today, seq) ==
    IF seq = 0
    THEN Name(cfg.component_name, cfg.instance_id, today, 0, FALSE, FALSE)
    ELSE Name(cfg.component_name, cfg.instance_id, today, seq, TRUE, FALSE)

\* the single format! of the size branch of rotate
SeqName(cfg, today, seq) ==
    Name(cfg.component_name, cfg.instance_id, today, seq, TRUE, FALSE)

\* the two format! arms of the self-heal branch: the arm is chosen by
\* state.max_seq_id, the number printed is the local max_seq_id
HealName(cfg, today, stateSeq, seq) ==
    IF stateSeq = 0
    THEN Name(cfg.component_name, cfg.instance_id, today, 0, FALSE, FALSE)
    ELSE Name(cfg.component_name, cfg.instance_id, today, seq, TRUE, FALSE)

\* compress: dest_path = "<path>.gz"
GzName(n) == [n EXCEPT !.gz = TRUE]

\* --------------------------------------------------------- parse_filename
NoRe == [comp |-> "", inst |-> 0]

\* LOG_FILE_NAME_RE.get_or_init: the regex is compiled from the arguments of
\* the first call in the process and reused by every later call
RegexUsed(cache, component, instance) ==
    IF cache = NoRe THEN [comp |-> component, inst |-> instance] ELSE cache

\* re.captures(name): the anchored "^<comp>_<inst>_" prefix of the regex in use
Matches(re, n) == n.comp = re.comp /\ n.inst = re.inst

\* parse_filename: Some((date, index)), index defaulting to 0
Parsed(n) == [date |-> n.date, seq |-> IF n.suffixed THEN n.seq ELSE 0]

\* the cache after the directory d was scanned with parse_filename
CacheAfterScan(cache, component, instance, d) ==
    IF d = {} THEN cache ELSE RegexUsed(cache, component, instance)

\* pure form of the grammar for a component and instance, no cache involved
InGrammar(cfg, n) == n.comp = cfg.component_name /\ n.inst = cfg.instance_id

\* ------------------------------------------------------------ filename_cmp
\* (variant: the sequence number compared before the date)
filename_cmp_seq_first(a, b) ==
    IF a.seq < b.seq THEN "Less"
    ELSE IF a.seq > b.seq THEN "Greater"
    ELSE IF a.date < b.date THEN "Less"
    ELSE IF a.date > b.date THEN "Greater"
    ELSE "Equal"

\* "Less", "Equal" or "Greater" of two (date, seq) pairs
filename_cmp(a, b) ==
    IF a.date < b.date THEN "Less"
    ELSE IF a.date > b.date THEN "Greater"
    ELSE IF a.seq < b.seq THEN "Less"
    ELSE IF a.seq > b.seq THEN "Greater"
    ELSE "Equal"

SetMax(S) == CHOOSE x \in S : \A y \in S : y <= x

\* -------------------------------------------------------------- max_seq_id
max_seq_id(cache, component, instance, d, t) ==
    LET re == RegexUsed(cache, component, instance)
        seqs == {Parsed(n).seq : n \in {m \in Names(d) :
                     Matches(re, m) /\ Parsed(m).date = DayOf(t)}}
    IN IF seqs = {} THEN 0 ELSE SetMax(seqs)

\* ------------------------------------------------------- file-open loops
\* create_file: Some(file) unless the path exists already
CanCreate(d, n) == ~Exists(d, n)

\* number of live files of this appender and day: the names a loop can hit
Colliding(cfg, today, d) ==
    Cardinality({n \in Names(d) : InGrammar(cfg, n) /\ n.date = today /\ ~n.gz})

\* each loop: [ok, seq, name, attempts]; ok = FALSE when LoopFuel attempts
\* all failed, which a loop over pairwise different names cannot do
RECURSIVE BuildLoop(_, _, _, _, _)
BuildLoop(cfg, today, d, seq, n) ==
    IF n > LoopFuel
    THEN [ok |-> FALSE, seq |-> seq, name |-> NoName, attempts |-> n - 1]
    ELSE IF CanCreate(d, BaseOrSeqName(cfg, today, seq))
         THEN [ok |-> TRUE, seq |-> seq,
               name |-> BaseOrSeqName(cfg, today, seq), attempts |-> n]
         ELSE BuildLoop(cfg, today, d, seq + 1, n + 1)

RECURSIVE SizeLoop(_, _, _, _, _)
SizeLoop(cfg, today, d, seq, n) ==
    IF n > LoopFuel
    THEN [ok |-> FALSE, seq |-> seq, name |-> NoName, attempts |-> n - 1]
    ELSE IF CanCreate(d, SeqName(cfg, today, seq))
         THEN [ok |-> TRUE, seq |-> seq,
               name |-> SeqName(cfg, today, seq), attempts |-> n]
         ELSE SizeLoop(cfg, today, d, seq + 1, n + 1)

RECURSIVE HealLoop(_, _, _, _, _, _)
HealLoop(cfg, today, d, stateSeq, seq, n) ==
    IF n > LoopFuel
    THEN [ok |-> FALSE, seq |-> seq, name |-> NoName, attempts |-> n - 1]
    ELSE IF CanCreate(d, HealName(cfg, today, stateSeq, seq))
         THEN [ok |-> TRUE, seq |-> seq,
               name |-> HealName(cfg, today, stateSeq, seq), attempts |-> n]
         ELSE HealLoop(cfg, today, d, stateSeq, seq + 1, n + 1)

LoopRecord(kind, cfg, today, d, loop) ==
    [kind |-> kind, attempts |-> loop.attempts,
     colliding |-> Colliding(cfg, today, d), ok |-> loop.ok]

NoLoop == [kind |-> "none", attempts |-> 0, colliding |-> 0, ok |-> TRUE]

\* -------------------------------------------------------------------- Init
OwnComp == "taosd"
OtherComp == "taosx"
OwnInst == 1
FirstDay == 1

TodayLog == Name(OwnComp, OwnInst, FirstDay, 0, FALSE, FALSE)
TodayGz1 == Name(OwnComp, OwnInst, FirstDay, 1, TRUE, TRUE)
OldLog == Name(OwnComp, OwnInst, FirstDay - 1, 0, FALSE, FALSE)
OtherLog == Name(OtherComp, OwnInst, FirstDay - 1, 0, FALSE, FALSE)


\* files a previous run, or another program, may have left in the directory
PreExisting == {TodayLog, TodayGz1, OldLog, OtherLog}

\* a fixed numbering of the pre-existing files
PreIno(n) ==
    CASE n = Name(OwnComp, OwnInst, FirstDay, 0, FALSE, FALSE) -> 1
      [] n = Name(OwnComp, OwnInst, FirstDay, 1, TRUE, TRUE) -> 2
      [] n = Name(OwnComp, OwnInst, FirstDay - 1, 0, FALSE, FALSE) -> 3
      [] n = Name(OtherComp, OwnInst, FirstDay - 1, 0, FALSE, FALSE) -> 4

\* Config as build() fills it from the builder
Config(compress, rotate_count) ==
    [component_name |-> OwnComp, instance_id |-> OwnInst,
     file_size |-> FileSize, reserced_disk_size |-> ReservedSize,
     compress |-> compress, rotate_count |-> rotate_count,
     stop_logging_threshold |-> DefaultStopPct]

NoEvent == [has |-> FALSE, file |-> NoName]

RetIdle == [pc |-> "recv", ev |-> NoEvent, listed |-> {}, del |-> {},
            todo |-> <<>>, done |-> FALSE, left |-> 0, kept |-> 0]

NoFile == [name |-> NoName, ino |-> 0]

\* the clock starts on the last tick of the first day
StartTick == FirstDay * TicksPerDay + (TicksPerDay - 1)

\* the state before build(): what the directory holds, the builder's
\* settings and the free space of the disk
InitAppender(scenarios, frees) ==
    /\ now = StartTick
    /\ \E sc \in scenarios :
          /\ dir = {[name |-> n, ino |-> PreIno(n)] : n \in sc.pre}
          /\ config = sc.cfg
    /\ fsize = [i \in 1..Cardinality(PreExisting) |-> 0]
    /\ born = [i \in 1..Cardinality(PreExisting) |-> CHOOSE n \in PreExisting : PreIno(n) = i]
    /\ otherBuilt = FALSE
    /\ reCache = NoRe
    /\ built = FALSE
    /\ state = [next_date |-> 0, max_seq_id |-> 0, file_path |-> NoName]
    /\ writer = 0
    /\ chan = <<>>
    /\ free \in frees
    /\ flag = FALSE
    /\ pc = [t \in Threads |-> "idle"]
    /\ lvl = [t \in Threads |-> "ERROR"]
    /\ space = [t \in Threads |-> 0]
    /\ stage = [t \in Threads |-> "none"]
    /\ newfile = [t \in Threads |-> NoFile]
    /\ wr = [t \in Threads |-> 0]
    /\ ret = RetIdle
    /\ ncalls = 0
    /\ extRemoved = 0
    /\ ntrans = [down |-> 0, up |-> 0]
    /\ markers = <<>>
    /\ lastLoop = NoLoop
    /\ hiwater = 0
    /\ floor = [t \in Threads |-> 0]
    /\ dropped = FALSE
    /\ monitor = "none"

\* no span, no event, empty carriers, no call made
NoLine == [has |-> FALSE, event |-> [level |-> "ERROR", fields |-> <<>>],
           qids |-> <<>>, kvs |-> <<>>, stack |-> <<>>]

NoOrigin == [some |-> FALSE, q |-> <<>>]

NoValue == [has |-> FALSE, text |-> <<>>, origin |-> NoOrigin]

NoQid == [from |-> "none", read |-> NoValue, some |-> FALSE, q |-> <<>>]

NoCall == [fn |-> "none"]

InitLayer == spans = <<>> /\ entered = <<>> /\ line = NoLine

InitCarriers == headers = <<>> /\ schema = <<>> /\ lastGet = NoQid

InitCalls == arg = NoCall /\ result = NoCall

InitZoned(scenarios, frees, zones) ==
    /\ zone \in zones
    /\ InitAppender(scenarios, frees)
    /\ InitLayer
    /\ InitCarriers
    /\ InitCalls

InitWith(scenarios, frees) == InitZoned(scenarios, frees, {NoDst})

\* ---------------------------------------- RollingFileAppenderBuilder::build
NewIno == Len(fsize) + 1

Build ==
    /\ UNCHANGED otherVars
    /\ ~built
    /\ monitor' = "loop"
    /\ UNCHANGED dropped
    /\ LET cfg == config
           today == DayOf(now)
           m == max_seq_id(reCache, cfg.component_name, cfg.instance_id, dir, now)
           loop == BuildLoop(cfg, today, dir, m, 1)
       IN /\ loop.ok
          /\ dir' = dir \cup {[name |-> loop.name, ino |-> NewIno]}
          /\ fsize' = Append(fsize, 0)
          /\ born' = Append(born, loop.name)
          /\ reCache' = CacheAfterScan(reCache, cfg.component_name,
                                       cfg.instance_id, dir)
          /\ state' = [next_date |-> next_timestamp(now),
                       max_seq_id |-> loop.seq, file_path |-> loop.name]
          /\ writer' = NewIno
          /\ lastLoop' = LoopRecord("build", cfg, today, dir, loop)
    /\ chan' = <<NoEvent>>
    /\ built' = TRUE
    /\ hiwater' = NewIno
    /\ UNCHANGED <<now, otherBuilt, config, free, flag, thrVars, ret>>
    /\ UNCHANGED <<ncalls, extRemoved, ntrans, markers, floor>>

\* build() of a second appender of the same process, for another component
\* and with rotate_count 0.  It scans and creates its file exactly as Build
\* does; its retention worker receives the initial event, finds nothing to
\* compress and returns before read_dir, and nothing is logged through it.
OtherConfig == [Config(FALSE, 0) EXCEPT !.component_name = OtherComp]

BuildOther ==
    /\ UNCHANGED otherVars
    /\ UNCHANGED lifeVars
    /\ ~otherBuilt
    /\ LET cfg == OtherConfig
           today == DayOf(now)
           m == max_seq_id(reCache, cfg.component_name, cfg.instance_id, dir, now)
           loop == BuildLoop(cfg, today, dir, m, 1)
       IN /\ loop.ok
          /\ dir' = dir \cup {[name |-> loop.name, ino |-> NewIno]}
          /\ fsize' = Append(fsize, 0)
          /\ born' = Append(born, loop.name)
          /\ reCache' = CacheAfterScan(reCache, cfg.component_name,
                                       cfg.instance_id, dir)
    /\ otherBuilt' = TRUE
    /\ UNCHANGED <<now, appVars, thrVars, ret, histVars>>

\* ------------------------------------------- MakeWriter::make_writer_for
\* (variant: the stop test with a strict comparison)
StoppedStrict(cfg, f) ==
    /\ cfg.reserced_disk_size > 0
    /\ f * 100 < cfg.stop_logging_threshold * cfg.reserced_disk_size

\* current_disk_space as f64 / reserced_disk_size as f64 <= threshold, the
\* threshold being stop_logging_threshold as f64 / 100f64.  A zero divisor
\* gives +inf or NaN, and neither is <= the threshold.
Stopped(cfg, f) ==
    /\ cfg.reserced_disk_size > 0
    /\ f * 100 <= cfg.stop_logging_threshold * cfg.reserced_disk_size

\* let level_downgrade = current_disk_space <= self.config.reserced_disk_size
Downgraded(cfg, f) == f <= cfg.reserced_disk_size

\* (variant: the level filter with the comparison reading >=)
FilteredAll(cfg, f, l) ==
    Downgraded(cfg, f) /\ LevelOrd(l) >= LevelOrd("ERROR")

\* level_downgrade && level > &Level::ERROR
Filtered(cfg, f, l) == Downgraded(cfg, f) /\ LevelOrd(l) > LevelOrd("ERROR")

\* the last if/else of make_writer_for: TaosLogWriter::Null, or make_writer()
Decide(t) ==
    IF Filtered(config, space[t], lvl[t])
    THEN /\ pc' = [pc EXCEPT ![t] = "null"]
         /\ stage' = [stage EXCEPT ![t] = "none"]
    ELSE /\ pc' = [pc EXCEPT ![t] = "rotate"]
         /\ stage' = [stage EXCEPT ![t] = "final"]

\* entry of make_writer_for: the load of disk_available_space and the stop
\* test, which returns TaosLogWriter::Null at once
Call(t, l) ==
    /\ UNCHANGED otherVars
    /\ built
    /\ ~dropped
    /\ UNCHANGED lifeVars
    /\ pc[t] = "idle"
    /\ ncalls < MaxCalls
    /\ ncalls' = ncalls + 1
    /\ lvl' = [lvl EXCEPT ![t] = l]
    /\ space' = [space EXCEPT ![t] = free]
    /\ pc' = [pc EXCEPT ![t] = IF Stopped(config, free) THEN "null" ELSE "cas"]
    /\ floor' = [floor EXCEPT ![t] = hiwater]
    /\ UNCHANGED <<fsVars, appVars, stage, newfile, wr, ret>>
    /\ UNCHANGED <<extRemoved, ntrans, markers, lastLoop, hiwater>>

\* (variant: a plain store in place of the exchange, every caller "wins")
ExchangeAlways(cur, expected) == TRUE

\* compare_exchange(expected, new, AcqRel, Acquire).is_ok_and(..): the exchange
\* is made, and reported won, exactly when the flag holds the expected value
ExchangeWon(cur, expected) == cur = expected

\* the history of the flag: one more transition of the kind when it changed
Transitions(kind) ==
    IF flag' # flag THEN [ntrans EXCEPT ![kind] = @ + 1] ELSE ntrans

\* the two compare_exchange tests; the winner goes on to write its marker
Cas(t) ==
    /\ UNCHANGED otherVars
    /\ UNCHANGED lifeVars
    /\ pc[t] = "cas"
    /\ IF Downgraded(config, space[t]) /\ ExchangeWon(flag, FALSE)
       THEN /\ flag' = TRUE
            /\ ntrans' = Transitions("down")
            /\ pc' = [pc EXCEPT ![t] = "rotate"]
            /\ stage' = [stage EXCEPT ![t] = "down"]
       ELSE IF ~Downgraded(config, space[t]) /\ ExchangeWon(flag, TRUE)
       THEN /\ flag' = FALSE
            /\ ntrans' = Transitions("up")
            /\ pc' = [pc EXCEPT ![t] = "rotate"]
            /\ stage' = [stage EXCEPT ![t] = "up"]
       ELSE /\ Decide(t)
            /\ UNCHANGED <<flag, ntrans>>
    /\ UNCHANGED <<fsVars, built, config, state, writer, chan, free>>
    /\ UNCHANGED <<lvl, space, newfile, wr, ret>>
    /\ UNCHANGED <<ncalls, extRemoved, markers, lastLoop, hiwater, floor>>

\* ------------------------------------------ RollingFileAppender::rotate
\* self.state.write(): the lock is taken at entry and kept to the return
StateLockFree == \A u \in Threads : pc[u] \notin {"send", "hung"}

\* a guard of self.writer.read() is alive in these positions
HoldsGuard(u) == pc[u] \in {"mark", "have"}

Event(path) == [has |-> TRUE, file |-> path]

\* event_tx.send(..) on flume::bounded(1): returns at once while there is
\* room, otherwise waits for the receiver to take the queued event
SendOrWait(t) ==
    IF Len(chan) < ChannelCap
    THEN /\ chan' = Append(chan, Event(state.file_path))
         /\ pc' = [pc EXCEPT ![t] = "swap"]
    ELSE /\ chan' = chan
         /\ pc' = [pc EXCEPT ![t] = "send"]

TimeDue == now >= state.next_date

SizeDue == fsize[writer] >= config.file_size

PathMissing == ~Exists(dir, state.file_path)

RotateTime(t) ==
    LET today == DayOf(now)
        loop == BuildLoop(config, today, dir, 0, 1)
        created == [name |-> loop.name, ino |-> NewIno]
    IN /\ loop.ok
       /\ dir' = dir \cup {created}
       /\ fsize' = Append(fsize, 0)
       /\ born' = Append(born, loop.name)
       /\ newfile' = [newfile EXCEPT ![t] = created]
       /\ SendOrWait(t)
       /\ state' = [next_date |-> next_timestamp(now),
                    max_seq_id |-> loop.seq,
                    file_path |-> IF Len(chan) < ChannelCap
                                  THEN loop.name ELSE state.file_path]
       /\ lastLoop' = LoopRecord("time", config, today, dir, loop)
       /\ UNCHANGED reCache

RotateSize(t) ==
    LET today == DayOf(now)
        loop == SizeLoop(config, today, dir, state.max_seq_id + 1, 1)
        created == [name |-> loop.name, ino |-> NewIno]
    IN /\ loop.ok
       /\ dir' = dir \cup {created}
       /\ fsize' = Append(fsize, 0)
       /\ born' = Append(born, loop.name)
       /\ newfile' = [newfile EXCEPT ![t] = created]
       /\ SendOrWait(t)
       /\ state' = [state EXCEPT
                    !.max_seq_id = loop.seq,
                    !.file_path = IF Len(chan) < ChannelCap
                                  THEN loop.name ELSE state.file_path]
       /\ lastLoop' = LoopRecord("size", config, today, dir, loop)
       /\ UNCHANGED reCache

RotateHeal(t) ==
    LET today == DayOf(now)
        m == max_seq_id(reCache, config.component_name, config.instance_id,
                        dir, now)
        loop == HealLoop(config, today, dir, state.max_seq_id, m, 1)
        created == [name |-> loop.name, ino |-> NewIno]
    IN /\ reCache' = CacheAfterScan(reCache, config.component_name,
                                    config.instance_id, dir)
       /\ lastLoop' = LoopRecord("heal", config, today, dir, loop)
       /\ chan' = chan
       /\ IF loop.ok
          THEN /\ dir' = dir \cup {created}
               /\ fsize' = Append(fsize, 0)
               /\ born' = Append(born, loop.name)
               /\ newfile' = [newfile EXCEPT ![t] = created]
               /\ state' = [state EXCEPT !.max_seq_id = loop.seq]
               /\ pc' = [pc EXCEPT ![t] = "swap"]
          ELSE /\ pc' = [pc EXCEPT ![t] = "hung"]
               /\ UNCHANGED <<dir, fsize, born, newfile, state>>

Rotate(t) ==
    /\ UNCHANGED otherVars
    /\ UNCHANGED lifeVars
    /\ pc[t] = "rotate"
    /\ StateLockFree
    /\ IF TimeDue THEN RotateTime(t)
       ELSE IF SizeDue THEN RotateSize(t)
       ELSE IF PathMissing THEN RotateHeal(t)
       ELSE /\ pc' = [pc EXCEPT ![t] = "read"]
            /\ UNCHANGED <<dir, fsize, born, reCache, state, chan, newfile, lastLoop>>
    /\ UNCHANGED <<now, otherBuilt, built, config, writer, free, flag>>
    /\ UNCHANGED <<lvl, space, stage, wr, ret>>
    /\ UNCHANGED <<ncalls, extRemoved, ntrans, markers, hiwater, floor>>

\* the blocked send of a time or size rotation goes through
SendResume(t) ==
    /\ UNCHANGED otherVars
    /\ UNCHANGED lifeVars
    /\ pc[t] = "send"
    /\ Len(chan) < ChannelCap
    /\ chan' = Append(chan, Event(state.file_path))
    /\ state' = [state EXCEPT !.file_path = newfile[t].name]
    /\ pc' = [pc EXCEPT ![t] = "swap"]
    /\ UNCHANGED <<fsVars, built, config, writer, free, flag>>
    /\ UNCHANGED <<lvl, space, stage, newfile, wr, ret, histVars>>

\* ------------------------------------------------ MakeWriter::make_writer
\* let mut writer = self.writer.write(); *writer = file;
Swap(t) ==
    /\ UNCHANGED otherVars
    /\ UNCHANGED lifeVars
    /\ pc[t] = "swap"
    /\ \A u \in Threads : ~HoldsGuard(u)
    /\ writer' = newfile[t].ino
    /\ newfile' = [newfile EXCEPT ![t] = NoFile]
    /\ pc' = [pc EXCEPT ![t] = "read"]
    /\ hiwater' = IF newfile[t].ino > hiwater THEN newfile[t].ino ELSE hiwater
    /\ UNCHANGED <<fsVars, built, config, state, chan, free, flag>>
    /\ UNCHANGED <<lvl, space, stage, wr, ret>>
    /\ UNCHANGED <<ncalls, extRemoved, ntrans, markers, lastLoop, floor>>

\* TaosLogWriter::Rolling(RollingWriter(self.writer.read()))
Read(t) ==
    /\ UNCHANGED otherVars
    /\ UNCHANGED lifeVars
    /\ pc[t] = "read"
    /\ wr' = [wr EXCEPT ![t] = writer]
    /\ pc' = [pc EXCEPT ![t] = IF stage[t] = "final" THEN "have" ELSE "mark"]
    /\ UNCHANGED <<fsVars, appVars, lvl, space, stage, newfile, ret, histVars>>

\* writer.write_all(b"=======level ...=====\n"); writer.flush(); the guard
\* is dropped at the end of the block and the call goes on to its last test
Mark(t) ==
    /\ UNCHANGED otherVars
    /\ UNCHANGED lifeVars
    /\ pc[t] = "mark"
    /\ fsize' = [fsize EXCEPT ![wr[t]] = @ + 1]
    /\ markers' = Append(markers, stage[t])
    /\ wr' = [wr EXCEPT ![t] = 0]
    /\ Decide(t)
    /\ UNCHANGED <<now, dir, born, otherBuilt, reCache, appVars, lvl, space, newfile, ret>>
    /\ UNCHANGED <<ncalls, extRemoved, ntrans, lastLoop, hiwater, floor>>

\* the caller writes its event through the returned writer and drops it;
\* std::io::Empty, the Null writer, swallows the event
Write(t) ==
    /\ UNCHANGED otherVars
    /\ UNCHANGED lifeVars
    /\ pc[t] \in {"have", "null"}
    /\ fsize' = IF pc[t] = "have" THEN [fsize EXCEPT ![wr[t]] = @ + 1] ELSE fsize
    /\ wr' = [wr EXCEPT ![t] = 0]
    /\ pc' = [pc EXCEPT ![t] = "idle"]
    /\ lvl' = [lvl EXCEPT ![t] = "ERROR"]
    /\ space' = [space EXCEPT ![t] = 0]
    /\ stage' = [stage EXCEPT ![t] = "none"]
    /\ floor' = [floor EXCEPT ![t] = 0]
    /\ UNCHANGED <<now, dir, born, otherBuilt, reCache, appVars, newfile, ret>>
    /\ UNCHANGED <<ncalls, extRemoved, ntrans, markers, lastLoop, hiwater>>

\* ------------------------------------- the retention worker of build
\* (variant: one file too few is taken for deletion)
delete_count_short(len, rotate_count) ==
    IF len > rotate_count + 1 THEN len - rotate_count - 1 ELSE 0

\* files.len().saturating_sub(config.rotate_count)
delete_count(len, rotate_count) ==
    IF len > rotate_count THEN len - rotate_count ELSE 0

\* the entries parse_filename accepts, as handle_old_files collects them
Listed(cache, cfg, d) ==
    {e \in d : Matches(RegexUsed(cache, cfg.component_name, cfg.instance_id),
                       e.name)}

Minimal(S) ==
    {e \in S : \A f \in S :
        filename_cmp(Parsed(f.name), Parsed(e.name)) # "Less"}

\* files.sort_by(filename_cmp) then take(k): sort_by is stable and read_dir
\* yields the entries in any order, so entries comparing Equal can come out
\* in either order; the result is one of these sequences
RECURSIVE TakeSorted(_, _)
TakeSorted(S, k) ==
    IF k = 0 \/ S = {}
    THEN {<<>>}
    ELSE UNION {{<<e>> \o r : r \in TakeSorted(S \ {e}, k - 1)} : e \in Minimal(S)}

\* (variant: the rotate_count test left out)
WantsCompressAnyCount(cfg, ev) == ev.has /\ cfg.compress

\* if config.compress && config.rotate_count != 1
WantsCompress(cfg, ev) == ev.has /\ cfg.compress /\ cfg.rotate_count # 1

RemoveName(d, n) == {e \in d : e.name # n}

\* handle_old_files returned: the worker is back in event_rx.recv().  left
\* and kept record what the directory d held at that moment: the files of the
\* configured grammar, and the files this pass had listed
PassDone(d, listed) ==
    ret' = [pc |-> "recv", ev |-> NoEvent, listed |-> {}, del |-> {},
            todo |-> <<>>, done |-> TRUE,
            left |-> Cardinality({e \in d : InGrammar(config, e.name)}),
            kept |-> Cardinality(listed \cap d)]

\* what follows the compression step of handle_old_files
AfterCompress(d) ==
    IF config.rotate_count = 0
    THEN PassDone(d, {})
    ELSE ret' = [ret EXCEPT !.pc = "list"]

RetRecv ==
    /\ UNCHANGED otherVars
    /\ UNCHANGED lifeVars
    /\ ret.pc = "recv"
    /\ chan # <<>>
    /\ chan' = Tail(chan)
    /\ IF WantsCompress(config, Head(chan))
       THEN ret' = [ret EXCEPT !.pc = "compress", !.ev = Head(chan)]
       ELSE AfterCompress(dir)
    /\ UNCHANGED <<fsVars, built, config, state, writer, free, flag>>
    /\ UNCHANGED <<thrVars, histVars>>

\* event_rx.recv() returns Err once the channel is empty and every sender
\* is gone: the while let ends and the worker thread returns
RetExit ==
    /\ UNCHANGED otherVars
    /\ ret.pc = "recv"
    /\ chan = <<>>
    /\ dropped
    /\ ret' = [ret EXCEPT !.pc = "exit"]
    /\ UNCHANGED <<fsVars, appVars, thrVars, histVars, lifeVars>>

\* compress, up to the creation of "<path>.gz" and the copy into it
RetCompress ==
    /\ UNCHANGED otherVars
    /\ UNCHANGED lifeVars
    /\ ret.pc = "compress"
    /\ LET path == ret.ev.file
       IN IF ~Exists(dir, path) \/ Exists(dir, GzName(path))
          THEN /\ AfterCompress(dir)
               /\ UNCHANGED <<dir, fsize, born>>
          ELSE /\ dir' = dir \cup {[name |-> GzName(path), ino |-> NewIno]}
               /\ fsize' = Append(fsize, fsize[InoOf(dir, path)])
               /\ born' = Append(born, GzName(path))
               /\ ret' = [ret EXCEPT !.pc = "unlink"]
    /\ UNCHANGED <<now, otherBuilt, reCache, appVars, thrVars, histVars>>

\* compress: fs::remove_file(path), then the rest of handle_old_files
RetUnlink ==
    /\ UNCHANGED otherVars
    /\ UNCHANGED lifeVars
    /\ ret.pc = "unlink"
    /\ dir' = RemoveName(dir, ret.ev.file)
    /\ AfterCompress(dir')
    /\ UNCHANGED <<now, fsize, born, otherBuilt, reCache, appVars, thrVars, histVars>>

\* handle_old_files: read_dir, parse, sort, take(delete_count)
RetList ==
    /\ UNCHANGED otherVars
    /\ UNCHANGED lifeVars
    /\ ret.pc = "list"
    /\ reCache' = CacheAfterScan(reCache, config.component_name,
                                 config.instance_id, dir)
    /\ LET files == Listed(reCache, config, dir)
           k == delete_count(Cardinality(files), config.rotate_count)
       IN \E del \in TakeSorted(files, k) :
             IF del = <<>>
             THEN PassDone(dir, files)
             ELSE ret' = [ret EXCEPT !.pc = "delete", !.listed = files,
                                     !.del = {del[i] : i \in 1..Len(del)},
                                     !.todo = del]
    /\ UNCHANGED <<now, dir, fsize, born, otherBuilt, appVars, thrVars, histVars>>

\* for file in delete_files { fs::remove_file(file).ok(); }, one file a step
RetDelete ==
    /\ UNCHANGED otherVars
    /\ UNCHANGED lifeVars
    /\ ret.pc = "delete"
    /\ dir' = RemoveName(dir, Head(ret.todo).name)
    /\ IF Len(ret.todo) = 1
       THEN PassDone(dir', ret.listed)
       ELSE ret' = [ret EXCEPT !.todo = Tail(@)]
    /\ UNCHANGED <<now, fsize, born, otherBuilt, reCache, appVars, thrVars, histVars>>

\* ------------------------------------------------------- the environment
\* the disk monitor thread: disk_available_space.store(..)
DiskUpdate ==
    /\ UNCHANGED otherVars
    /\ monitor = "loop"
    /\ UNCHANGED lifeVars
    /\ \E f \in 1..MaxFree : f # free /\ free' = f
    /\ UNCHANGED <<fsVars, built, config, state, writer, chan, flag>>
    /\ UNCHANGED <<thrVars, ret, histVars>>

\* the owner drops the RollingFileAppender, which no call is borrowing:
\* event_tx, the only sender, goes with it.  thread::spawn handles were
\* detached, so nothing is signalled to either background thread
Drop ==
    /\ UNCHANGED otherVars
    /\ built
    /\ ~dropped
    /\ \A t \in Threads : pc[t] = "idle"
    /\ dropped' = TRUE
    /\ UNCHANGED <<fsVars, appVars, thrVars, ret, histVars, monitor>>

\* the wall clock read by Local::now()
Tick ==
    /\ UNCHANGED otherVars
    /\ UNCHANGED lifeVars
    /\ now < StartTick + MaxTicks
    /\ now' = now + 1
    /\ UNCHANGED <<dir, fsize, born, otherBuilt, reCache, appVars, thrVars, ret, histVars>>

\* the current log file is removed from outside the process
ExtRemove ==
    /\ UNCHANGED otherVars
    /\ UNCHANGED lifeVars
    /\ built
    /\ extRemoved < MaxExtRemove
    /\ extRemoved' = extRemoved + 1
    /\ Exists(dir, state.file_path)
    /\ dir' = RemoveName(dir, state.file_path)
    /\ UNCHANGED <<now, fsize, born, otherBuilt, reCache, appVars, thrVars, ret>>
    /\ UNCHANGED <<ncalls, ntrans, markers, lastLoop, hiwater, floor>>

\* ------------------------------------------------- TaosLayer (layer.rs)
\* text is a sequence of characters
Space == " "

Quote == "\""

\* format_str: the Debug form, in double quotes, of a value with a space in it
format_str(v) ==
    IF \E i \in 1..Len(v) : v[i] = Space THEN <<Quote>> \o v \o <<Quote>> ELSE v

\* [String]::join(sep)
RECURSIVE join(_, _)
join(parts, sep) ==
    IF parts = <<>> THEN <<>>
    ELSE IF Len(parts) = 1 THEN parts[1]
    ELSE parts[1] \o sep \o join(Tail(parts), sep)

\* RecordVisit::record_str for a field other than "message"
record_str(f) == format_str(f.k) \o <<":">> \o format_str(f.v)

\* the QidManager of the embedder: init() and the values it is set to
QidSeed == "9223372036854775807"

Qids == {"999"}

\* the names of the spans the application makes, in the order it makes them
SpanNames == <<(<<"o", "u", "t">>), (<<"i", "n", " ", "r">>)>>

NextName == SpanNames[(Len(spans) % Len(SpanNames)) + 1]

SpanField == [k |-> <<"k">>, v |-> <<"k", " ", "k">>]

LateField == [k |-> <<"r">>, v |-> <<"1">>]

EventField == [k |-> <<"e">>, v |-> <<"2">>]

Last(seq) == seq[Len(seq)]

\* the parent the registry gives a new span: the current span, if any
CurrentSpan == IF entered = <<>> THEN 0 ELSE Last(entered)

\* (variant: every new span starts from the seed)
InheritNever(sp, parent) == QidSeed

\* span.parent().and_then(|p| p.extensions().get::<Q>().cloned()), or
\* Q::init() for None
Inherit(sp, parent) == IF parent = 0 THEN QidSeed ELSE sp[parent].qid

\* on_new_span, for a span with the given name and recorded fields
NewSpan(name, fields) ==
    /\ Len(spans) < MaxSpans
    /\ spans' = Append(spans,
                   [parent |-> CurrentSpan, name |-> name,
                    qid |-> Inherit(spans, CurrentSpan), explicit |-> FALSE,
                    cache |-> [has |-> TRUE, fields |-> fields]])
    /\ UNCHANGED <<entered, line, carrierVars, callVars, appenderVars, zone>>

\* on_record: the values go into the span's RecordFields, made anew when
\* the span has none
on_record(i, f) ==
    /\ i \in 1..Len(spans)
    /\ Len(spans[i].cache.fields) < MaxFields
    /\ spans' = [spans EXCEPT ![i].cache =
                    IF @.has THEN [@ EXCEPT !.fields = Append(@, record_str(f))]
                    ELSE [has |-> TRUE, fields |-> <<record_str(f)>>]]
    /\ UNCHANGED <<entered, line, carrierVars, callVars, appenderVars, zone>>

\* the registry's enter and exit of a span
Enter(i) ==
    /\ i \in 1..Len(spans)
    /\ \A j \in 1..Len(entered) : entered[j] # i
    /\ entered' = Append(entered, i)
    /\ UNCHANGED <<spans, line, carrierVars, callVars, appenderVars, zone>>

Exit ==
    /\ entered # <<>>
    /\ entered' = SubSeq(entered, 1, Len(entered) - 1)
    /\ UNCHANGED <<spans, line, carrierVars, callVars, appenderVars, zone>>

\* utils::set_qid(Span, q): ext.replace(qid) on the current span
SetSpanQid(q) ==
    /\ entered # <<>>
    /\ spans' = [spans EXCEPT ![Last(entered)].qid = q, ![Last(entered)].explicit = TRUE]
    /\ UNCHANGED <<entered, line, carrierVars, callVars, appenderVars, zone>>

\* scope.from_root(): the span and its ancestors, the root first
RECURSIVE from_root(_, _)
from_root(sp, i) ==
    IF i = 0 THEN <<>> ELSE Append(from_root(sp, sp[i].parent), i)

\* concatenation of a sequence of sequences
RECURSIVE Flatten(_)
Flatten(ss) == IF ss = <<>> THEN <<>> ELSE ss[1] \o Flatten(Tail(ss))

\* level >= &tracing::Level::DEBUG
print_stacktrace(level) == LevelOrd(level) >= LevelOrd("DEBUG")

\* (variant: the span fields are put before the event's own)
kvs_spans_first(own, moved) == moved \o own

\* kvs: event.record(..) first, then kvs.extend(fields.0) span by span
kvs_of(own, moved) == own \o moved

\* (variant: the stack is printed from INFO up)
stack_from_info(level, scope) ==
    IF LevelOrd(level) >= LevelOrd("INFO") /\ scope # <<>>
    THEN <<"s", "t", "a", "c", "k", ":">> \o
         join([j \in 1..Len(scope) |-> format_str(spans[scope[j]].name)], <<"-", ">">>)
    ELSE <<>>

\* spans.push(format_str(span.name())) under print_stacktrace, and the
\* "stack:" section when spans is not empty
stack_of(level, scope) ==
    IF print_stacktrace(level) /\ scope # <<>>
    THEN <<"s", "t", "a", "c", "k", ":">> \o
         join([j \in 1..Len(scope) |-> format_str(spans[scope[j]].name)], <<"-", ">">>)
    ELSE <<>>

\* (variant: the fields are read with get and stay in the span)
get_RecordFields(c) == c

\* span.extensions_mut().remove::<RecordFields>(): what the span is left with
remove_RecordFields(c) == [has |-> FALSE, fields |-> <<>>]

\* on_event / fmt_fields_and_qid for an event of the level with the fields:
\* the QID of the last span of the scope that has one, the seed without one;
\* every span of the scope loses its RecordFields to the line
on_event(level, fields) ==
    /\ ncalls < MaxEvents
    /\ ncalls' = ncalls + 1
    /\ LET scope == from_root(spans, CurrentSpan)
           own == [j \in 1..Len(fields) |-> record_str(fields[j])]
           moved == Flatten([j \in 1..Len(scope) |-> spans[scope[j]].cache.fields])
       IN /\ line' = [has |-> TRUE,
                      event |-> [level |-> level, fields |-> fields],
                      qids |-> <<IF scope = <<>> THEN QidSeed
                                 ELSE spans[Last(scope)].qid>>,
                      kvs |-> kvs_of(own, moved),
                      stack |-> stack_of(level, scope)]
          /\ spans' = [i \in 1..Len(spans) |->
                         IF \E j \in 1..Len(scope) : scope[j] = i
                         THEN [spans[i] EXCEPT !.cache = remove_RecordFields(@)]
                         ELSE spans[i]]
    /\ UNCHANGED <<entered, carrierVars, callVars>>
    /\ UNCHANGED <<fsVars, appVars, thrVars, ret, lifeVars, zone>>
    /\ UNCHANGED <<extRemoved, ntrans, markers, lastLoop, hiwater, floor>>

\* ------------------------------------------- QID carriers (utils.rs)
\* A u64 is the sequence of its U64Digits hexadecimal digits, the most
\* significant first; a carrier is the sequence of the values stored under
\* "x-qid", each with the set_qid argument it came from, if it came from one.
HexChars == <<"0", "1", "2", "3", "4", "5", "6", "7", "8", "9",
              "a", "b", "c", "d", "e", "f">>

UpperChars == <<"0", "1", "2", "3", "4", "5", "6", "7", "8", "9",
                "A", "B", "C", "D", "E", "F">>

IsHexChar(c) == \E n \in 1..16 : HexChars[n] = c \/ UpperChars[n] = c

\* char::to_digit(16)
DigitOf(c) == (CHOOSE n \in 1..16 : HexChars[n] = c \/ UpperChars[n] = c) - 1

\* the digits of a number without its leading zeros, one digit at least
RECURSIVE Significant(_)
Significant(ds) ==
    IF Len(ds) > 1 /\ ds[1] = 0 THEN Significant(Tail(ds)) ELSE ds

\* zero padding on the left up to w digits
ZeroPad(ds, w) ==
    IF Len(ds) >= w THEN ds ELSE [i \in 1..(w - Len(ds)) |-> 0] \o ds

\* (variant: {:#x}, no padding)
format_unpadded(q) ==
    <<"0", "x">> \o [i \in 1..Len(Significant(q)) |-> HexChars[Significant(q)[i] + 1]]

\* format!("{:#018x}", qid.get()): "0x", then the lowercase digits padded
\* with zeros to a total width of FormatWidth
format_018x(q) ==
    LET ds == ZeroPad(Significant(q), FormatWidth - 2)
    IN <<"0", "x">> \o [i \in 1..Len(ds) |-> HexChars[ds[i] + 1]]

\* str::get(2..): None for a string shorter than two bytes
get_from_2(x) ==
    IF Len(x) < 2 THEN [some |-> FALSE, text |-> <<>>]
    ELSE [some |-> TRUE, text |-> SubSeq(x, 3, Len(x))]

\* u64::from_str_radix(x, 16): an optional '+', then one digit at least, of
\* either case; Err on any other character and on a value over u64::MAX
from_str_radix(x) ==
    LET body == IF x # <<>> /\ x[1] = "+" THEN Tail(x) ELSE x
    IN IF body = <<>> \/ \E i \in 1..Len(body) : ~IsHexChar(body[i])
       THEN [some |-> FALSE, q |-> <<>>]
       ELSE LET ds == Significant([i \in 1..Len(body) |-> DigitOf(body[i])])
            IN IF Len(ds) > U64Digits
               THEN [some |-> FALSE, q |-> <<>>]
               ELSE [some |-> TRUE, q |-> ZeroPad(ds, U64Digits)]

\* the chain of and_then of get_qid on the value found under the key
parse_qid(values) ==
    IF values = <<>> THEN [some |-> FALSE, q |-> <<>>]
    ELSE IF ~get_from_2(values[1].text).some THEN [some |-> FALSE, q |-> <<>>]
    ELSE from_str_radix(get_from_2(values[1].text).text)

Stored(q) == [has |-> TRUE, text |-> format_018x(q), origin |-> [some |-> TRUE, q |-> q]]

Raw(text) == [has |-> TRUE, text |-> text, origin |-> NoOrigin]

\* (variant: the value is added after the ones already there)
insert_appending(values, v) == Append(values, v)

\* HeaderMap::insert / HashMap::insert: the key's earlier values are replaced
insert(values, v) == <<v>>

\* set_qid(&mut HeaderMap, q)
SetHeader(q) ==
    /\ headers' = insert(headers, Stored(q))
    /\ UNCHANGED <<schema, lastGet, layerVars, callVars, appenderVars, zone>>

\* set_qid(&mut Schema, q)
SetSchema(q) ==
    /\ schema' = insert(schema, Stored(q))
    /\ UNCHANGED <<headers, lastGet, layerVars, callVars, appenderVars, zone>>

\* a header map as received from a peer, and a schema as read from a
\* dataset: any text under the key
RawHeader(text) ==
    /\ headers' = <<Raw(text)>>
    /\ UNCHANGED <<schema, lastGet, layerVars, callVars, appenderVars, zone>>

RawSchema(text) ==
    /\ schema' = <<Raw(text)>>
    /\ UNCHANGED <<headers, lastGet, layerVars, callVars, appenderVars, zone>>

\* get_qid(&HeaderMap) and get_qid(&Schema): Q::from of the parsed value
GetHeader ==
    /\ lastGet' = [from |-> "header",
                   read |-> IF headers = <<>> THEN NoValue ELSE headers[1],
                   some |-> parse_qid(headers).some, q |-> parse_qid(headers).q]
    /\ UNCHANGED <<headers, schema, layerVars, callVars, appenderVars, zone>>

GetSchema ==
    /\ lastGet' = [from |-> "schema",
                   read |-> IF schema = <<>> THEN NoValue ELSE schema[1],
                   some |-> parse_qid(schema).some, q |-> parse_qid(schema).q]
    /\ UNCHANGED <<headers, schema, layerVars, callVars, appenderVars, zone>>

\* u64 values: runs of two digits, of every length
SampleDigits == {0, 10, 15}

U64Samples ==
    {[i \in 1..U64Digits |-> IF i <= k THEN a ELSE b] :
        k \in {0, 1, U64Digits - 1}, a \in SampleDigits, b \in SampleDigits}

\* values a peer can send: well formed, and malformed in each way
RawTexts ==
    { <<>>, <<"0">>, <<"0", "x">>,
      <<"0", "x", "1", "f">>,
      <<"z", "z", "1", "f">>,
      <<"0", "x", "+", "f">>,
      <<"0", "x", "g">>,
      <<"0", "x">> \o [i \in 1..U64Digits |-> "F"],
      <<"0", "x">> \o [i \in 1..U64Digits |-> "7"],
      <<"0", "x", "0">> \o [i \in 1..U64Digits |-> "1"],
      <<"0", "x", "1">> \o [i \in 1..U64Digits |-> "0"] }

\* ------------------------------------------------------ parse_unit_size
\* Numbers too large for one machine word of the checker are kept as
\* NumLimbs digits in base 2^16, the least significant first; a u64 is
\* one whose digits above the first U64Limbs are zero.
LimbBase == 256 * 256

ZeroLimbs == [i \in 1..NumLimbs |-> 0]

\* x * m + a, for small m and a
RECURSIVE MulAddFrom(_, _, _, _)
MulAddFrom(x, m, carry, i) ==
    IF i > Len(x) THEN <<>>
    ELSE <<(x[i] * m + carry) % LimbBase>> \o
         MulAddFrom(x, m, (x[i] * m + carry) \div LimbBase, i + 1)

MulAdd(x, m, a) == MulAddFrom(x, m, a, 1)

IsDigit(c) == \E n \in 1..10 : HexChars[n] = c

\* the value of a run of decimal digits
RECURSIVE DecimalValue(_, _)
DecimalValue(ds, acc) ==
    IF ds = <<>> THEN acc
    ELSE DecimalValue(Tail(ds), MulAdd(acc, 10, DigitOf(ds[1])))

FitsU64(x) == \A i \in (U64Limbs + 1)..Len(x) : x[i] = 0

\* the value modulo 2^64
WrapU64(x) == [i \in 1..Len(x) |-> IF i <= U64Limbs THEN x[i] ELSE 0]

\* str::parse::<u64>: an optional '+', one decimal digit at least, no other
\* character, and a value that fits
parse_u64(x) ==
    LET body == IF x # <<>> /\ x[1] = "+" THEN Tail(x) ELSE x
    IN IF body = <<>> \/ \E i \in 1..Len(body) : ~IsDigit(body[i])
       THEN [some |-> FALSE, v |-> ZeroLimbs]
       ELSE IF ~FitsU64(DecimalValue(body, ZeroLimbs))
       THEN [some |-> FALSE, v |-> ZeroLimbs]
       ELSE [some |-> TRUE, v |-> DecimalValue(body, ZeroLimbs)]

NonAscii == "é"

\* str::len(), in bytes
RECURSIVE ByteLen(_)
ByteLen(x) ==
    IF x = <<>> THEN 0
    ELSE (IF x[1] = NonAscii THEN 2 ELSE 1) + ByteLen(Tail(x))

\* to_ascii_uppercase, on the letters of the units
Upper(c) ==
    CASE c = "k" -> "K"
      [] c = "m" -> "M"
      [] c = "g" -> "G"
      [] c = "b" -> "B"
      [] OTHER -> c

\* the number of factors 1024 of the unit's arm, 0 for the `_` arm
UnitSteps(unit) ==
    LET u == [i \in 1..Len(unit) |-> Upper(unit[i])]
    IN CASE u = <<"K", "B">> -> 1
         [] u = <<"M", "B">> -> 2
         [] u = <<"G", "B">> -> 3
         [] OTHER -> 0

\* count * 1024 [* 1024 [* 1024]], left to right, without loss
RECURSIVE Times1024(_, _)
Times1024(x, steps) ==
    IF steps = 0 THEN x ELSE Times1024(MulAdd(x, 1024, 0), steps - 1)

Failed == [kind |-> "InvalidRotationSize", v |-> ZeroLimbs]

\* (variant: the products are made with checked_mul and an overflow fails)
unit_size_checked(size) ==
    IF ByteLen(size) < 3 \/ \E i \in 1..Len(size) : size[i] = NonAscii
    THEN {Failed}
    ELSE LET count == parse_u64(SubSeq(size, 1, Len(size) - 2))
             steps == UnitSteps(SubSeq(size, Len(size) - 1, Len(size)))
         IN IF ~count.some \/ steps = 0 THEN {Failed}
            ELSE IF FitsU64(Times1024(count.v, steps))
            THEN {[kind |-> "Ok", v |-> Times1024(count.v, steps)]}
            ELSE {Failed}

\* parse_unit_size: the outcomes a build of the crate can produce.  The
\* products are plain u64 multiplications: on overflow a build with overflow
\* checks panics and a build without them keeps the low 64 bits
parse_unit_size(size) ==
    IF ByteLen(size) < 3 \/ \E i \in 1..Len(size) : size[i] = NonAscii
    THEN {Failed}
    ELSE LET count == parse_u64(SubSeq(size, 1, Len(size) - 2))
             steps == UnitSteps(SubSeq(size, Len(size) - 1, Len(size)))
         IN IF ~count.some \/ steps = 0 THEN {Failed}
            ELSE IF FitsU64(Times1024(count.v, steps))
            THEN {[kind |-> "Ok", v |-> Times1024(count.v, steps)]}
            ELSE {[kind |-> "Panic", v |-> ZeroLimbs],
                  [kind |-> "Ok", v |-> WrapU64(Times1024(count.v, steps))]}

\* a call of parse_unit_size, as made by build for rotation_size and
\* reserved_disk_size
ParseUnitSize(size) ==
    /\ arg' = [fn |-> "parse_unit_size", text |-> size]
    /\ \E r \in parse_unit_size(size) :
          result' = [fn |-> "parse_unit_size", kind |-> r.kind, v |-> r.v]
    /\ UNCHANGED <<layerVars, carrierVars, appenderVars, zone>>

CountTexts ==
    { <<"0">>,
      <<"5">>,
      <<"0", "5">>,
      <<"1", "0", "2", "3">>,
      <<"1", "7", "1", "7", "9", "8", "6", "9", "1", "8", "3">>,
      <<"1", "7", "1", "7", "9", "8", "6", "9", "1", "8", "4">>,
      <<"1", "7", "5", "9", "2", "1", "8", "6", "0", "4", "4", "4", "1", "5">>,
      <<"1", "7", "5", "9", "2", "1", "8", "6", "0", "4", "4", "4", "1", "6">>,
      <<"1", "8", "0", "1", "4", "3", "9", "8", "5", "0", "9", "4", "8", "1", "9", "8", "3">>,
      <<"1", "8", "0", "1", "4", "3", "9", "8", "5", "0", "9", "4", "8", "1", "9", "8", "4">>,
      <<"1", "8", "4", "4", "6", "7", "4", "4", "0", "7", "3", "7", "0", "9", "5", "5", "1", "6", "1", "5">>,
      <<"1", "8", "4", "4", "6", "7", "4", "4", "0", "7", "3", "7", "0", "9", "5", "5", "1", "6", "1", "6">>,
      <<>>,
      <<"x", "5">>,
      <<"-", "5">>,
      <<"+", "5">>,
      <<"5", " ">> }

UnitTexts ==
    { <<"K", "B">>, <<"k", "b">>, <<"M", "b">>, <<"G", "B">>, <<"g", "B">>, <<"T", "B">> }

SizeTexts ==
    {c \o u : c \in CountTexts, u \in UnitTexts}
        \cup {<<>>, <<"K", "B">>, <<"5", "G", "B", "K">>, <<"5", NonAscii>>,
              <<"5", "K", NonAscii>>}

\* ------------------------------------------------------- parse_filename
\* File names as text.  Display of an unsigned integer
RECURSIVE Decimal(_)
Decimal(n) ==
    IF n < 10 THEN <<HexChars[n + 1]>>
    ELSE Decimal(n \div 10) \o <<HexChars[(n % 10) + 1]>>

PadZero(x, w) == IF Len(x) >= w THEN x ELSE [i \in 1..(w - Len(x)) |-> "0"] \o x

\* time_format: %Y%m%d of a calendar date
time_format(d) == PadZero(Decimal(d.y), 4) \o PadZero(Decimal(d.m), 2) \o PadZero(Decimal(d.d), 2)

\* the name build and rotate give a log file, and the one compress gives
\* its archive
file_name(component, instance_id, d, seq) ==
    component \o <<"_">> \o Decimal(instance_id) \o <<"_">> \o time_format(d)
        \o <<".", "l", "o", "g">> \o (IF seq = 0 THEN <<>> ELSE <<".">> \o Decimal(seq))

gz_name(name) == name \o <<".", "g", "z">>

\* The head of the regular expression, "^{component}_{instance_id}_", read as
\* the regex crate reads it: a character stands for itself, '.' for any
\* character, and '+' repeats the item before it once or more.
RECURSIVE Atoms(_)
Atoms(pattern) ==
    IF pattern = <<>> THEN <<>>
    ELSE IF Len(pattern) >= 2 /\ pattern[2] = "+"
    THEN <<[c |-> pattern[1], plus |-> TRUE]>> \o Atoms(SubSeq(pattern, 3, Len(pattern)))
    ELSE <<[c |-> pattern[1], plus |-> FALSE]>> \o Atoms(Tail(pattern))

AtomAt(a, text, p) == p <= Len(text) /\ (a.c = "." \/ text[p] = a.c)

\* the positions of text at which a match of the items begun at pos can end
RECURSIVE MatchEnds(_, _, _)
MatchEnds(atoms, text, pos) ==
    IF atoms = <<>> THEN {pos}
    ELSE IF ~atoms[1].plus
    THEN IF AtomAt(atoms[1], text, pos) THEN MatchEnds(Tail(atoms), text, pos + 1) ELSE {}
    ELSE UNION {MatchEnds(Tail(atoms), text, pos + k) :
                   k \in {k \in 1..(Len(text) + 1 - pos) :
                             \A j \in 0..(k - 1) : AtomAt(atoms[1], text, pos + j)}}

AllDigits(x) == x # <<>> /\ \A i \in 1..Len(x) : IsDigit(x[i])

NoCaps == [matched |-> FALSE, date |-> <<>>, index |-> <<>>]

\* the rest of the expression from pos to the end of the name:
\* (?<date>\d{8})\.log(\.(?<index1>\d+)|\.gz|\.(?<index2>\d+)\.gz)?$
TailCaptures(text, pos) ==
    LET date == SubSeq(text, pos, pos + 7)
        rest == SubSeq(text, pos + 12, Len(text))
        gz   == <<".", "g", "z">>
    IN IF \/ Len(text) < pos + 11
          \/ ~AllDigits(date)
          \/ SubSeq(text, pos + 8, pos + 11) # <<".", "l", "o", "g">>
       THEN NoCaps
       ELSE IF rest = <<>> \/ rest = gz
       THEN [matched |-> TRUE, date |-> date, index |-> <<>>]
       ELSE IF rest[1] = "." /\ AllDigits(Tail(rest))
       THEN [matched |-> TRUE, date |-> date, index |-> Tail(rest)]
       ELSE IF /\ Len(rest) > 4
               /\ rest[1] = "."
               /\ SubSeq(rest, Len(rest) - 2, Len(rest)) = gz
               /\ AllDigits(SubSeq(rest, 2, Len(rest) - 3))
       THEN [matched |-> TRUE, date |-> date, index |-> SubSeq(rest, 2, Len(rest) - 3)]
       ELSE NoCaps

\* re.captures(name), the expression anchored at both ends
captures(pattern, name) ==
    LET ends == {p \in MatchEnds(Atoms(pattern), name, 1) : TailCaptures(name, p).matched}
    IN IF ends = {} THEN NoCaps
       ELSE TailCaptures(name, CHOOSE p \in ends : \A q \in ends : q <= p)

\* the value of a short run of decimal digits
RECURSIVE Number(_)
Number(x) ==
    IF x = <<>> THEN 0 ELSE 10 * Number(SubSeq(x, 1, Len(x) - 1)) + DigitOf(x[Len(x)])

DaysIn(y, m) ==
    IF m = 2
    THEN (IF (y % 4 = 0 /\ y % 100 # 0) \/ y % 400 = 0 THEN 29 ELSE 28)
    ELSE IF m \in {4, 6, 9, 11} THEN 30 ELSE 31

NoDate == [y |-> 0, m |-> 0, d |-> 0]

\* parse_date_str: the eight digits are a calendar date or the result is
\* None.  Local is taken to be a zone in which every midnight exists once.
parse_date_str(date) ==
    LET y == Number(SubSeq(date, 1, 4))
        m == Number(SubSeq(date, 5, 6))
        d == Number(SubSeq(date, 7, 8))
    IN IF m \in 1..12 /\ d \in 1..DaysIn(y, m)
       THEN [some |-> TRUE, date |-> [y |-> y, m |-> m, d |-> d]]
       ELSE [some |-> FALSE, date |-> NoDate]

\* the source of the expression parse_filename compiles on its first call
pattern_of(component, instance_id) ==
    component \o <<"_">> \o Decimal(instance_id) \o <<"_">>

Compiled(cache) == "pattern" \in DOMAIN cache

\* LOG_FILE_NAME_RE.get_or_init: the expression of the first call is kept
get_or_init(cache, component, instance_id) ==
    IF Compiled(cache) THEN cache ELSE [pattern |-> pattern_of(component, instance_id)]

\* (variant: the expression is compiled from the arguments of every call)
compile_each_call(cache, component, instance_id) ==
    [pattern |-> pattern_of(component, instance_id)]

NoneParsed == [some |-> FALSE, date |-> NoDate, index |-> 0]

\* parse_filename with the expression re
parse_filename(re, name) ==
    LET caps == captures(re.pattern, name)
    IN IF ~caps.matched \/ ~parse_date_str(caps.date).some THEN NoneParsed
       ELSE [some |-> TRUE, date |-> parse_date_str(caps.date).date,
             index |-> Number(caps.index)]

\* a call of parse_filename, as made by max_seq_id and by the retention scan
ParseFilename(component, instance_id, name) ==
    /\ reCache' = get_or_init(reCache, component, instance_id)
    /\ arg' = [fn |-> "parse_filename", component |-> component,
               instance_id |-> instance_id, name |-> name]
    /\ result' = [fn |-> "parse_filename",
                  parsed |-> parse_filename(reCache', name)]
    /\ UNCHANGED <<now, dir, fsize, born, otherBuilt>>
    /\ UNCHANGED <<appVars, thrVars, ret, histVars, lifeVars, zone>>
    /\ UNCHANGED <<layerVars, carrierVars>>

\* the appenders of the directory: their component and instance id
Callers ==
    { [component |-> <<"t", "a", "o", "s", "x">>, instance_id |-> 1],
      [component |-> <<"t", "a", "o", "s", "x">>, instance_id |-> 12],
      [component |-> <<"t", "a", "o", "s", "x", "_", "a", "g", "e", "n", "t">>, instance_id |-> 1],
      [component |-> <<"t", "a", "o", "s", "+">>, instance_id |-> 1] }

Dates == {[y |-> 2024, m |-> 9, d |-> 9], [y |-> 2000, m |-> 2, d |-> 29]}

Seqs == {0, 1, 10}

LogNames ==
    {file_name(c.component, c.instance_id, d, q) : c \in Callers, d \in Dates, q \in Seqs}

\* names of the directory that no appender made
ForeignNames ==
    { <<"t", "a", "o", "s", "x", "_", "1", "_", "2", "0", "2", "4", "1", "3", "0", "9", ".", "l", "o", "g">>,
      <<"t", "a", "o", "s", "x", "_", "1", "_", "2", "0", "2", "3", "0", "2", "2", "9", ".", "l", "o", "g">>,
      <<"t", "a", "o", "s", "x", "_", "1", "_", "2", "0", "2", "4", "0", "9", "9", ".", "l", "o", "g">>,
      <<"t", "a", "o", "s", "x", "_", "1", "_", "2", "0", "2", "4", "0", "9", "0", "9", ".", "l", "o", "g", ".", "g", "z", ".", "1">>,
      <<"t", "a", "o", "s", "x", "_", "1", "_", "2", "0", "2", "4", "0", "9", "0", "9", ".", "l", "o", "g", ".">>,
      <<"t", "a", "o", "s", "x", "_", "1", "_", "2", "0", "2", "4", "0", "9", "0", "9", ".", "t", "x", "t">>,
      <<"x", "t", "a", "o", "s", "x", "_", "1", "_", "2", "0", "2", "4", "0", "9", "0", "9", ".", "l", "o", "g">>,
      <<"t", "a", "o", "s", "x", "_", "1", "_", "2", "0", "2", "4", "0", "9", "0", "9", ".", "l", "o", "g", ".", "0", "0", "7">>,
      <<"t", "a", "o", "s", "s", "_", "1", "_", "2", "0", "2", "4", "0", "9", "0", "9", ".", "l", "o", "g">> }

FileNames == LogNames \cup {gz_name(n) : n \in LogNames} \cup ForeignNames

\* ---------------------------------------------------------- specifications
\* Rotation and retention: every directory and setting, ample disk space,
\* an application logging at INFO.
Scenario(pre, compress, rotate_count) ==
    [pre |-> pre, cfg |-> Config(compress, rotate_count)]

Scenarios ==
    { Scenario({}, FALSE, 1),
      Scenario({}, TRUE, MaxRotate),
      Scenario({}, TRUE, 1),
      Scenario({OldLog}, FALSE, 0),
      Scenario({OldLog}, FALSE, 1),
      Scenario({TodayLog}, FALSE, MaxRotate),
      Scenario({TodayGz1}, TRUE, MaxRotate),
      Scenario({OtherLog, OldLog}, FALSE, 1) }

Init == InitWith(Scenarios, {MaxFree})

Next ==
    \/ Build
    \/ \E t \in Threads : Call(t, "INFO")
    \/ \E t \in Threads : Cas(t)
    \/ \E t \in Threads : Rotate(t)
    \/ \E t \in Threads : SendResume(t)
    \/ \E t \in Threads : Swap(t)
    \/ \E t \in Threads : Read(t)
    \/ \E t \in Threads : Write(t)
    \/ RetRecv
    \/ RetCompress
    \/ RetUnlink
    \/ RetList
    \/ RetDelete
    \/ Tick
    \/ ExtRemove

Spec == Init /\ [][Next]_vars

\* Disk pressure: an empty directory, no pruning, every level and every
\* amount of free space, within one day and with no outside interference.
GateScenario ==
    [pre |-> {}, cfg |-> [Config(FALSE, 0) EXCEPT !.file_size = FileSize + 1]]

InitGate == InitWith({GateScenario}, 1..MaxFree)

NextGate ==
    \/ Build
    \/ \E t \in Threads : \E l \in Levels : Call(t, l)
    \/ \E t \in Threads : Cas(t)
    \/ \E t \in Threads : Rotate(t)
    \/ \E t \in Threads : SendResume(t)
    \/ \E t \in Threads : Swap(t)
    \/ \E t \in Threads : Read(t)
    \/ \E t \in Threads : Mark(t)
    \/ \E t \in Threads : Write(t)
    \/ RetRecv
    \/ DiskUpdate

SpecGate == InitGate /\ [][NextGate]_vars

\* Two appenders in one process and one directory: the rotation and
\* retention of the first, logged to by one thread, and the construction of
\* the second at any moment.
ScenariosTwo ==
    { Scenario({}, FALSE, 1),
      Scenario({OtherLog}, TRUE, MaxRotate),
      Scenario({TodayGz1}, TRUE, MaxRotate),
      Scenario({OtherLog, OldLog}, FALSE, 1) }

InitTwo == InitWith(ScenariosTwo, {MaxFree})

NextTwo ==
    \/ Build
    \/ BuildOther
    \/ Call(1, "INFO")
    \/ Cas(1)
    \/ Rotate(1)
    \/ SendResume(1)
    \/ Swap(1)
    \/ Read(1)
    \/ Write(1)
    \/ RetRecv
    \/ RetCompress
    \/ RetUnlink
    \/ RetList
    \/ RetDelete
    \/ Tick
    \/ ExtRemove

\* the retention worker thread of build: while let Ok(..) = event_rx.recv()
\* { handle_old_files(..).ok(); }, a thread of its own that the scheduler
\* does not starve
RetentionWorker ==
    RetRecv \/ RetCompress \/ RetUnlink \/ RetList \/ RetDelete

SpecTwo == InitTwo /\ [][NextTwo]_vars /\ WF_vars(RetentionWorker)

\* Two logging threads and the retention worker, each scheduled fairly: a
\* thread that can take its next step is not held back for ever.
ThreadStep(t) ==
    Cas(t) \/ Rotate(t) \/ SendResume(t) \/ Swap(t) \/ Read(t) \/ Write(t)

InitLive ==
    InitWith({Scenario({TodayLog}, FALSE, MaxRotate),
              Scenario({}, TRUE, MaxRotate)}, {MaxFree})

SpecLive ==
    /\ InitLive
    /\ [][Next]_vars
    /\ \A t \in Threads : WF_vars(ThreadStep(t))
    /\ WF_vars(RetentionWorker)

\* The life of one appender logged to by one thread, up to and after its
\* drop, with both background threads scheduled fairly.
InitDrop == InitWith({Scenario({}, FALSE, 1)}, {MaxFree})

Worker == RetRecv \/ RetList \/ RetDelete \/ RetExit

NextDrop ==
    \/ Build
    \/ Call(1, "INFO")
    \/ Cas(1)
    \/ Rotate(1)
    \/ SendResume(1)
    \/ Swap(1)
    \/ Read(1)
    \/ Write(1)
    \/ RetRecv
    \/ RetList
    \/ RetDelete
    \/ RetExit
    \/ DiskUpdate
    \/ Drop

SpecDrop ==
    InitDrop /\ [][NextDrop]_vars /\ WF_vars(Worker) /\ WF_vars(DiskUpdate)

\* One appender logged to by one thread over a change of day, in a zone
\* without daylight saving and in zones where the new day is an hour longer
\* or an hour shorter than time_delta.
Zones == {NoDst, [long |-> {FirstDay + 1}, short |-> {}],
          [long |-> {}, short |-> {FirstDay + 1}]}

InitDst ==
    InitZoned({Scenario({}, FALSE, 0), Scenario({TodayLog}, TRUE, MaxRotate)},
              {MaxFree}, Zones)

NextDst ==
    \/ Build
    \/ Call(1, "INFO")
    \/ Cas(1)
    \/ Rotate(1)
    \/ SendResume(1)
    \/ Swap(1)
    \/ Read(1)
    \/ Write(1)
    \/ RetRecv
    \/ RetCompress
    \/ RetUnlink
    \/ RetList
    \/ RetDelete
    \/ Tick

SpecDst == InitDst /\ [][NextDst]_vars

\* The formatting layer on one thread: spans are made, entered, left and
\* given a QID or more fields, and events of every level are emitted.
InitLayerOnly == InitWith({Scenario({}, FALSE, 0)}, {MaxFree})

NextLayer ==
    \/ \E f \in {<<>>, <<record_str(SpanField)>>} : NewSpan(NextName, f)
    \/ on_record(CurrentSpan, LateField)
    \/ \E i \in 1..MaxSpans : Enter(i)
    \/ Exit
    \/ \E q \in Qids : SetSpanQid(q)
    \/ \E l \in Levels : \E f \in {<<>>, <<EventField>>} : on_event(l, f)

SpecLayer == InitLayerOnly /\ [][NextLayer]_vars

\* The QID carriers: set_qid and get_qid on a header map and on a schema,
\* and values that arrive from outside.
NextCarrier ==
    \/ \E q \in U64Samples : SetHeader(q)
    \/ \E q \in U64Samples : SetSchema(q)
    \/ \E x \in RawTexts : RawHeader(x)
    \/ \E x \in RawTexts : RawSchema(x)
    \/ GetHeader
    \/ GetSchema

SpecCarrier == InitLayerOnly /\ [][NextCarrier]_vars

\* --------------------------------- build: the log directory (writer.rs)
\* a path is absolute or relative to the working directory; a location is
\* the sequence of components from the root
Cwd == <<"srv">>

Resolve(path) == IF path.absolute THEN path.comps ELSE Cwd \o path.comps

Prefixes(loc) == {SubSeq(loc, 1, k) : k \in 0..Len(loc)}

\* the longest prefix of loc that is a directory of the tree
DeepestDir(tree, loc) ==
    CHOOSE q \in Prefixes(loc) \cap tree.dirs :
        \A r \in Prefixes(loc) \cap tree.dirs : Len(r) <= Len(q)

\* Path::canonicalize: the absolute form of a path that exists, an error
\* for one that does not
canonicalize(tree, path) ==
    IF Resolve(path) \in tree.dirs \cup tree.files
    THEN [ok |-> TRUE, path |-> [absolute |-> TRUE, comps |-> Resolve(path)]]
    ELSE [ok |-> FALSE, path |-> path]

\* Path::is_dir
is_dir(tree, path) == Resolve(path) \in tree.dirs

\* fs::create_dir_all: every missing component is made, unless a component
\* is a file or the directory to make the first one in cannot be written
create_dir_all(tree, path) ==
    LET loc == Resolve(path)
    IN IF \/ Prefixes(loc) \cap tree.files # {}
          \/ (loc \notin tree.dirs /\ DeepestDir(tree, loc) \in tree.readonly)
       THEN [ok |-> FALSE, tree |-> tree]
       ELSE [ok |-> TRUE,
             tree |-> [tree EXCEPT !.dirs = @ \cup Prefixes(loc)]]

\* build, up to "init log dir": canonicalize a relative log_dir, then
\* create_dir_all unless it is a directory
build_log_dir(tree, log_dir) ==
    LET canon == canonicalize(tree, log_dir)
        path == IF log_dir.absolute THEN log_dir ELSE canon.path
        made == create_dir_all(tree, path)
    IN IF ~log_dir.absolute /\ ~canon.ok
       THEN [outcome |-> "GetLogAbsolutePath", log_dir |-> log_dir, tree |-> tree]
       ELSE IF is_dir(tree, path)
       THEN [outcome |-> "Ok", log_dir |-> path, tree |-> tree]
       ELSE IF made.ok
       THEN [outcome |-> "Ok", log_dir |-> path, tree |-> made.tree]
       ELSE [outcome |-> "CreateLogDir", log_dir |-> path, tree |-> tree]

BuildLogDir(tree, log_dir) ==
    /\ arg' = [fn |-> "build_log_dir", tree |-> tree, log_dir |-> log_dir]
    /\ LET r == build_log_dir(tree, log_dir)
       IN result' = [fn |-> "build_log_dir", outcome |-> r.outcome,
                     log_dir |-> r.log_dir, tree |-> r.tree]
    /\ UNCHANGED <<layerVars, carrierVars, appenderVars, zone>>

\* what the disk holds when build is called: the working directory alone,
\* the log directory and a subdirectory, a file in the place of the log
\* directory, a working directory that cannot be written
Tree(dirs, files, readonly) ==
    [dirs |-> {<<>>, Cwd} \cup dirs, files |-> files, readonly |-> readonly]

Trees ==
    { Tree({}, {}, {}),
      Tree({<<"srv", "log">>}, {}, {}),
      Tree({<<"srv", "log">>, <<"srv", "log", "a">>}, {}, {}),
      Tree({}, {<<"srv", "log">>}, {}),
      Tree({}, {}, {Cwd}) }

LogDirs ==
    { [absolute |-> TRUE, comps |-> <<"srv", "log">>],
      [absolute |-> TRUE, comps |-> <<"srv", "log", "a">>],
      [absolute |-> FALSE, comps |-> <<"log">>],
      [absolute |-> FALSE, comps |-> <<"log", "a">>] }


\* The parsers of writer.rs and the directory step of build, called in any
\* order on any of the inputs.
NextParse ==
    \/ \E tree \in Trees, log_dir \in LogDirs : BuildLogDir(tree, log_dir)
    \/ \E x \in SizeTexts : ParseUnitSize(x)
    \/ \E c \in Callers, n \in FileNames :
          ParseFilename(c.component, c.instance_id, n)

SpecParse == InitLayerOnly /\ [][NextParse]_vars

\* ------------------------------------------------------------------ claims
\* free / reserved <= threshold, as exact arithmetic on the loaded value
AtOrBelowStop(f) ==
    /\ config.reserced_disk_size > 0
    /\ f * 100 <= config.stop_logging_threshold * config.reserced_disk_size

\* C1: a make_writer_for call that loads a free space with free / reserved
\* <= threshold (equality included) returns the null sink at once, at every
\* level, and neither that call nor the write into the null sink creates or
\* rotates a file, writes a marker or touches the level_downgrade flag.
C1_StopReturnsNull ==
    [][\A t \in Threads :
        /\ (pc[t] = "idle" /\ pc'[t] # "idle" /\ AtOrBelowStop(free))
              => /\ pc'[t] = "null"
                 /\ UNCHANGED <<dir, fsize, state, writer, chan, flag,
                                ntrans, markers>>
        /\ (pc[t] = "null" /\ pc'[t] # "null")
              => UNCHANGED <<dir, fsize, state, writer, chan, flag,
                             ntrans, markers>>]_vars

\* C1 witness: an ERROR event was refused with free / reserved exactly at the
\* threshold
C1_Witness ==
    \E t \in Threads :
        /\ pc[t] = "null"
        /\ lvl[t] = "ERROR"
        /\ space[t] * 100 = config.stop_logging_threshold * config.reserced_disk_size

\* the call of thread t has returned: it holds the Null or the Rolling writer
HasReturned(t) == pc[t] \in {"null", "have"}

\* C2: a call not stopped by the threshold returns, when free <= reserved,
\* the null sink for WARN, INFO, DEBUG and TRACE and a file writer for ERROR,
\* and when free > reserved a file writer for every level.
C2_LevelGate ==
    \A t \in Threads :
        (HasReturned(t) /\ ~AtOrBelowStop(space[t])) =>
            /\ (pc[t] = "have" => wr[t] \in 1..Len(fsize))
            /\ IF space[t] <= config.reserced_disk_size
               THEN (pc[t] = "null") <=> (lvl[t] \in {"WARN", "INFO", "DEBUG", "TRACE"})
               ELSE pc[t] = "have"

\* C2 witness: with the same free space at the reserved size, one thread
\* holds a file writer for an ERROR event while another got the null sink
\* for a TRACE event
C2_Witness ==
    \E t, u \in Threads :
        /\ pc[t] = "have" /\ lvl[t] = "ERROR"
        /\ pc[u] = "null" /\ lvl[u] = "TRACE"
        /\ space[t] = config.reserced_disk_size
        /\ space[u] = config.reserced_disk_size
        /\ ~AtOrBelowStop(space[t])

Count(seq, x) == Cardinality({i \in 1..Len(seq) : seq[i] = x})

\* threads that won a transition of the kind and have not written its marker
Pending(kind) ==
    Cardinality({t \in Threads :
        stage[t] = kind /\ pc[t] \in {"rotate", "send", "swap", "read", "mark", "hung"}})

\* C3: every transition of the flag has exactly one marker of its kind,
\* written by the thread that made the transition (or still to be written by
\* it), and there is no marker without a transition.
C3_OneMarkerPerTransition ==
    \A kind \in {"down", "up"} :
        Count(markers, kind) + Pending(kind) = ntrans[kind]

\* C3 witness: the flag went up and came down again, both markers are
\* written and no thread is inside a call
C3_Witness ==
    /\ ntrans["down"] >= 1 /\ ntrans["up"] >= 1
    /\ Count(markers, "down") = ntrans["down"]
    /\ Count(markers, "up") = ntrans["up"]
    /\ \A t \in Threads : pc[t] = "idle"

\* C4 (as stated): whenever a pass with rotate_count = N > 0 has completed,
\* at most N files of the configured grammar were in the directory at that
\* moment, whatever the appender did meanwhile.
C4_AtMostNRemain ==
    (ret.done /\ config.rotate_count > 0) => ret.left <= config.rotate_count

\* C4 (amended): whenever a pass with rotate_count = N > 0 has completed, at
\* most N of the files that the pass found in its directory listing were in
\* the directory at that moment; files created after the listing are not
\* counted, and are left to the pass of the next event.
C4_AtMostNListedRemain ==
    (ret.done /\ config.rotate_count > 0) => ret.kept <= config.rotate_count

\* C4 witness: a pass completed having pruned down to N of its listed files
\* while the appender had created one more
C4_Witness ==
    /\ ret.done
    /\ config.rotate_count > 0
    /\ ret.kept = config.rotate_count
    /\ ret.left > ret.kept

\* (date, seq) of a not after (date, seq) of b
LexLE(a, b) == a.date < b.date \/ (a.date = b.date /\ a.seq <= b.seq)

\* C5: the files a pass is deleting are max(0, len - rotate_count) of the
\* listed ones, every one of them is not newer by (date, seq), date first,
\* than every listed file that survives, filename_cmp is that lexicographic
\* order with equal pairs Equal, and a pass with rotate_count = 0 never
\* lists or deletes.
C5_PrunesOldest ==
    /\ ret.pc \in {"list", "delete"} => config.rotate_count # 0
    /\ ret.pc = "delete" =>
        /\ ret.del \subseteq ret.listed
        /\ {ret.todo[i] : i \in 1..Len(ret.todo)} \subseteq ret.del
        /\ Cardinality(ret.del) =
              IF Cardinality(ret.listed) > config.rotate_count
              THEN Cardinality(ret.listed) - config.rotate_count ELSE 0
        /\ \A d \in ret.del : \A k \in ret.listed \ ret.del :
              LexLE(Parsed(d.name), Parsed(k.name))
        /\ \A a, b \in ret.listed :
              filename_cmp(Parsed(a.name), Parsed(b.name)) =
                 IF Parsed(a.name) = Parsed(b.name) THEN "Equal"
                 ELSE IF LexLE(Parsed(a.name), Parsed(b.name)) THEN "Less"
                 ELSE "Greater"

\* C5 witness: a pass is deleting, and a deleted file and a surviving one
\* have the same (date, seq)
C5_Witness ==
    /\ ret.pc = "delete"
    /\ Cardinality(ret.listed \ ret.del) = config.rotate_count
    /\ \E d \in ret.del : \E k \in ret.listed \ ret.del :
          Parsed(d.name) = Parsed(k.name)

\* C6 (as stated): a step of the retention worker removes from the directory
\* only files named by the grammar of the worker's own component and instance.
C6_RemovesOnlyOwnFiles ==
    [][ret' # ret =>
          \A e \in dir \ dir' : InGrammar(config, e.name)]_vars

\* no thread is between the start of a rotation and the end of the swap
Quiescent == built /\ \A t \in Threads : pc[t] \notin {"send", "swap", "hung"}

\* C7 (as stated): whenever no rotation is in progress, the shared writer is
\* the file that was created under the name state.file_path, and the file of
\* that name in the directory, if there is one, is that file.
C7_WriterIsFilePath ==
    Quiescent =>
        /\ born[writer] = state.file_path
        /\ Exists(dir, state.file_path) => InoOf(dir, state.file_path) = writer

\* C8 (as stated): state.max_seq_id goes down only in a rotation made at or
\* after next_date, that is a time rotation into a new day.
C8_SeqNeverDecreases ==
    [][(built /\ state'.max_seq_id < state.max_seq_id) =>
          now >= state.next_date]_vars

\* C9 (as stated): the last file-open loop that ran found a free name within
\* (number of colliding files + 1) attempts.
C9_LoopsTerminate ==
    lastLoop.ok /\ lastLoop.attempts <= lastLoop.colliding + 1

\* C10 (as stated): no thread is ever waiting on the channel inside rotate,
\* where it holds the state write lock.
C10_SendNeverBlocks == \A t \in Threads : pc[t] # "send"

\* C11 (as stated): no step replaces the shared writer while a thread holds
\* a writer returned by make_writer, and a writer returned to a call is on a
\* file at least as new as the newest file installed before the call began.
C11_WriterNeverGoesBack ==
    [][/\ (\E t \in Threads : HoldsGuard(t)) => writer' = writer
       /\ \A t \in Threads :
             pc'[t] \in {"mark", "have"} => wr'[t] >= floor'[t]]_vars

\* C12 (as stated): once the appender has been dropped, eventually the
\* retention worker has left its loop and the disk monitor has left its loop.
C12_TasksTerminate ==
    dropped ~> (ret.pc = "exit" /\ monitor = "done")

\* C13: every step that creates a span gives it the QID its parent, the
\* current span, carries at that moment, and the seed of init() when there
\* is no parent.
C13_QidInherited ==
    [][Len(spans') = Len(spans) + 1 =>
          LET new == spans'[Len(spans')]
          IN /\ new.parent = CurrentSpan
             /\ new.qid = IF new.parent # 0 THEN spans[new.parent].qid ELSE QidSeed]_vars

\* C13 witness: a span made inside a span whose QID was set to 999 carries
\* 999 without having been set itself
C13_Witness ==
    \E i \in 1..Len(spans) :
        /\ spans[i].parent # 0
        /\ spans[spans[i].parent].explicit
        /\ spans[spans[i].parent].qid = "999"
        /\ ~spans[i].explicit
        /\ spans[i].qid = "999"

\* the QID of the innermost span of the scope on which one was set, else
\* the seed
RECURSIVE InnermostSet(_, _)
InnermostSet(sp, scope) ==
    IF scope = <<>> THEN QidSeed
    ELSE IF sp[Last(scope)].explicit THEN sp[Last(scope)].qid
    ELSE InnermostSet(sp, SubSeq(scope, 1, Len(scope) - 1))

\* C14 (as stated): the line of an event emitted inside a span has exactly
\* one QID token, and it is the QID of the innermost span of the event's
\* scope on which a QID was explicitly set, the seed if there is none.
C14_QidOfInnermostSetter ==
    [][(ncalls' = ncalls + 1 /\ entered # <<>>) =>
          /\ Len(line'.qids) = 1
          /\ line'.qids[1] = InnermostSet(spans, from_root(spans, CurrentSpan))]_vars

\* C15 (as stated): the k:v section of an event line is the fields of the
\* spans of its scope, root first, followed by the event's own fields.
C15_SpanFieldsFirst ==
    [][ncalls' = ncalls + 1 =>
          LET scope == from_root(spans, CurrentSpan)
              inherited == Flatten([j \in 1..Len(scope) |->
                                      spans[scope[j]].cache.fields])
              own == [j \in 1..Len(line'.event.fields) |->
                        record_str(line'.event.fields[j])]
          IN line'.kvs = inherited \o own]_vars

\* C16: an event line has a stack section exactly when the event is DEBUG
\* or TRACE and has an enclosing span, and the section is "stack:" and the
\* names of the spans of the scope, root first, joined by "->".
C16_StackOnlyDebugTrace ==
    [][ncalls' = ncalls + 1 =>
          LET scope == from_root(spans, CurrentSpan)
              names == [j \in 1..Len(scope) |-> format_str(spans[scope[j]].name)]
          IN /\ line'.stack # <<>> <=>
                    (line'.event.level \in {"DEBUG", "TRACE"} /\ scope # <<>>)
             /\ line'.stack # <<>> =>
                    line'.stack = <<"s", "t", "a", "c", "k", ":">> \o join(names, <<"-", ">">>)]_vars

\* C16 witness: a DEBUG line with a stack of two spans
C16_Witness ==
    /\ line.has
    /\ line.event.level = "DEBUG"
    /\ \E i \in 1..Len(line.stack) : line.stack[i] = ">"

\* the text "0x" and the 16 lowercase hexadecimal digits of q
Canonical(q) == <<"0", "x">> \o [i \in 1..16 |-> HexChars[q[i] + 1]]

\* C17: a carrier written by set_qid(q) holds, as its only value under
\* "x-qid", "0x" and the 16 lowercase hex digits of q, whatever it held
\* before; and get_qid on a value written by set_qid(q) returns Some of q.
C17_SetGetRoundTrip ==
    /\ \A c \in {headers, schema} : \A i \in 1..Len(c) :
          c[i].origin.some =>
             /\ c[i].text = Canonical(c[i].origin.q)
             /\ Len(c) = 1
    /\ lastGet.read.origin.some =>
          /\ lastGet.some
          /\ lastGet.q = lastGet.read.origin.q

\* C17 witness: get_qid on the header map returned the value 0x0fff...f that
\* set_qid had stored, and the schema holds another
C17_Witness ==
    /\ lastGet.from = "header"
    /\ lastGet.read.origin.some
    /\ lastGet.some
    /\ lastGet.q = [i \in 1..16 |-> IF i <= 1 THEN 0 ELSE 15]
    /\ schema # <<>>
    /\ schema[1].origin.some
    /\ schema[1].origin.q # lastGet.q

\* exactly "0x" followed by 16 hexadecimal digits
WellFormed(x) ==
    /\ Len(x) = 18
    /\ x[1] = "0" /\ x[2] = "x"
    /\ \A i \in 3..18 : IsHexChar(x[i])

\* C18 (as stated): get_qid returns None when the entry is absent or its
\* value is not exactly "0x" and 16 hexadecimal digits.
C18_MalformedIsNone ==
    (lastGet.from # "none" /\ (~lastGet.read.has \/ ~WellFormed(lastGet.read.text)))
        => ~lastGet.some

\* a decimal count that fits u64 (a leading '+' allowed) and a unit KB, MB
\* or GB in either case
ValidSize(x) ==
    /\ Len(x) >= 3
    /\ parse_u64(SubSeq(x, 1, Len(x) - 2)).some
    /\ UnitSteps(SubSeq(x, Len(x) - 1, Len(x))) # 0

\* C19 (as stated): on a valid size string parse_unit_size returns exactly
\* count * 2^10, 2^20 or 2^30, without wrap-around or abort; on every other
\* string it fails with InvalidRotationSize.
C19_ExactUnitSize ==
    result.fn = "parse_unit_size" =>
        IF ValidSize(arg.text)
        THEN /\ result.kind = "Ok"
             /\ result.v = Times1024(
                    DecimalValue(IF arg.text[1] = "+"
                                 THEN SubSeq(arg.text, 2, Len(arg.text) - 2)
                                 ELSE SubSeq(arg.text, 1, Len(arg.text) - 2),
                                 ZeroLimbs),
                    UnitSteps(SubSeq(arg.text, Len(arg.text) - 1, Len(arg.text))))
        ELSE result.kind = "InvalidRotationSize"

\* C20 (as stated): parsing the name the appender gives (component, instance,
\* date, seq), or the name of its archive, with the same component and
\* instance returns Some((date, seq)), an absent seq being read as 0.
C20_FilenameRoundTrip ==
    result.fn = "parse_filename" =>
        \A d \in Dates, q \in Seqs :
            LET n == file_name(arg.component, arg.instance_id, d, q)
            IN arg.name \in {n, gz_name(n)} =>
                   result.parsed = [some |-> TRUE, date |-> d, index |-> q]

\* C21 (as stated): a call parse_filename(component, instance, name) returns
\* Some only when name matches the anchored expression built from the
\* component and instance of that call, whatever the earlier calls were.
C21_SomeOnlyOwnGrammar ==
    (result.fn = "parse_filename" /\ result.parsed.some) =>
        captures(pattern_of(arg.component, arg.instance_id), arg.name).matched

\* the log files a step creates for the configured component (the archives
\* of compress are not log files)
CreatedLogs ==
    {e \in dir' \ dir : ~e.name.gz /\ InGrammar(config, e.name)}

\* C22 (as stated): every file build or rotate creates is named with no
\* suffix when its sequence number is 0 and with the suffix ".<seq>",
\* seq >= 1, otherwise, never ".log.0", and its sequence number is
\* state.max_seq_id after the operation.
C22_CreatedNameMatchesSeq ==
    [][\A e \in CreatedLogs :
          /\ e.name.suffixed <=> e.name.seq >= 1
          /\ e.name.seq = state'.max_seq_id]_vars

\* the files build and rotate have created so far, by creation order
CreatedInos ==
    {i \in (Cardinality(PreExisting) + 1)..Len(born) :
        ~born[i].gz /\ InGrammar(config, born[i])}

\* C23 (as stated): of any two files one appender created, the one created
\* first has the strictly smaller (date, seq) in the order of filename_cmp.
C23_CreationOrderIsNameOrder ==
    \A i \in CreatedInos, j \in CreatedInos :
        i < j => filename_cmp(Parsed(born[i]), Parsed(born[j])) = "Less"

\* thread t's rotate takes the time branch in this step
TimeRotates(t) ==
    pc[t] = "rotate" /\ pc'[t] \in {"swap", "send"} /\ TimeDue

\* C24 (as stated): a rotate with now >= next_date creates today's first
\* free name counted from sequence number 0 and leaves max_seq_id at its
\* number, sets next_date to the start of the local day after now, strictly
\* later than now, so that a rotate at the same time does not time-rotate
\* again, and, once its send has gone through, has queued the previous
\* file_path and made the new file the file_path.
C24_TimeRotation ==
    [][\A t \in Threads :
          /\ TimeRotates(t) =>
                /\ newfile'[t].name = BaseOrSeqName(config, DayOf(now), state'.max_seq_id)
                /\ ~Exists(dir, newfile'[t].name)
                /\ \A k \in 0..(state'.max_seq_id - 1) :
                      Exists(dir, BaseOrSeqName(config, DayOf(now), k))
                /\ state'.next_date = DayStart(DayOf(now) + 1)
                /\ state'.next_date > now
                /\ ~(now >= state'.next_date)
                /\ pc'[t] = "swap" =>
                      /\ chan' = Append(chan, Event(state.file_path))
                      /\ state'.file_path = newfile'[t].name
          /\ (pc[t] = "send" /\ pc'[t] = "swap") =>
                /\ chan' = Append(chan, Event(state.file_path))
                /\ state'.file_path = newfile[t].name]_vars

\* thread t's rotate runs in this step with no time rotation due and the
\* file named file_path at or over rotation.file_size
SizeReached(t) ==
    /\ pc[t] = "rotate" /\ pc'[t] # "rotate"
    /\ ~TimeDue
    /\ Exists(dir, state.file_path)
    /\ fsize[InoOf(dir, state.file_path)] >= config.file_size

\* C25 (as stated): such a rotate creates the file of the first free suffix
\* above max_seq_id and leaves max_seq_id at it, queues the previous
\* file_path and makes the new file the file_path; and a file whose length
\* has reached file_size receives no further line.
C25_SizeRotation ==
    [][/\ \A t \in Threads :
             SizeReached(t) =>
                /\ pc'[t] \in {"swap", "send"}
                /\ newfile'[t].name = SeqName(config, DayOf(now), state'.max_seq_id)
                /\ state'.max_seq_id > state.max_seq_id
                /\ ~Exists(dir, newfile'[t].name)
                /\ \A k \in (state.max_seq_id + 1)..(state'.max_seq_id - 1) :
                      Exists(dir, SeqName(config, DayOf(now), k))
                /\ pc'[t] = "swap" =>
                      /\ chan' = Append(chan, Event(state.file_path))
                      /\ state'.file_path = newfile'[t].name
       /\ \A i \in 1..Len(fsize) :
             fsize'[i] > fsize[i] => fsize[i] < config.file_size]_vars

\* the largest sequence number among today's files of the configured
\* component and instance, 0 without any
TodayMax ==
    LET seqs == {Parsed(n).seq : n \in {m \in Names(dir) :
                    InGrammar(config, m) /\ m.date = DayOf(now)}}
    IN IF seqs = {} THEN 0 ELSE SetMax(seqs)

\* C26 (as stated): a rotate with no time or size rotation due and
\* file_path missing creates the first free name counted from the sequence
\* number recomputed from the directory, leaves max_seq_id at its number,
\* returns the file and queues nothing; a rotate with none of the three
\* conditions returns no file and changes neither state nor directory.
C26_SelfHeal ==
    [][\A t \in Threads :
          (pc[t] = "rotate" /\ pc'[t] # "rotate" /\ ~TimeDue /\ ~SizeDue) =>
             IF PathMissing
             THEN /\ pc'[t] = "swap"
                  /\ newfile'[t].name = BaseOrSeqName(config, DayOf(now), state'.max_seq_id)
                  /\ newfile'[t] \in dir' \ dir
                  /\ state'.max_seq_id >= TodayMax
                  /\ \A k \in TodayMax..(state'.max_seq_id - 1) :
                        Exists(dir, BaseOrSeqName(config, DayOf(now), k))
                  /\ chan' = chan
             ELSE /\ pc'[t] = "read"
                  /\ UNCHANGED <<state, dir, chan>>]_vars

\* today's files of the configured component and instance in directory d,
\* live or compressed, and their largest sequence number (0 without any)
TodayFiles(d) ==
    {e \in d : InGrammar(config, e.name) /\ e.name.date = DayOf(now)}

TodaySeqMax(d) ==
    LET seqs == {Parsed(e.name).seq : e \in TodayFiles(d)}
    IN IF seqs = {} THEN 0 ELSE SetMax(seqs)

\* the sequence number build() ends with in a directory d
BuiltSeq(d) ==
    BuildLoop(config, DayOf(now), d,
              max_seq_id(reCache, config.component_name, config.instance_id,
                         d, now), 1).seq

\* C27: after a successful build, state.file_path names a file that did not
\* exist before build, carries today's date and the sequence number
\* state.max_seq_id, which is at least the largest sequence number among
\* today's pre-existing files (live or .gz) of this component and instance;
\* the files of earlier days do not influence max_seq_id.
C27_BuildOpensFreshFile ==
    [][(~built /\ built') =>
          /\ ~Exists(dir, state'.file_path)
          /\ Exists(dir', state'.file_path)
          /\ InoOf(dir', state'.file_path) = writer'
          /\ state'.file_path =
                BaseOrSeqName(config, DayOf(now), state'.max_seq_id)
          /\ state'.max_seq_id >= TodaySeqMax(dir)
          /\ state'.max_seq_id = BuiltSeq(TodayFiles(dir))]_vars

\* the files of the configured component and instance in the directory
OwnFiles == {e \in dir : InGrammar(config, e.name)}

\* the appender has not rotated: build() ran the last file-open loop
NeverRotated == lastLoop.kind = "build"

\* the first pass of the retention worker has returned and has left at most
\* rotate_count files of the appender (rotate_count 0 keeps every file)
InitialPassPruned ==
    /\ ret.done
    /\ (NeverRotated /\ config.rotate_count > 0) =>
          Cardinality(OwnFiles) <= config.rotate_count

\* C28: every successful build is eventually followed by one retention pass
\* with no file to compress, run before any rotation-triggered pass, so that
\* the pre-existing files (those of earlier days included) beyond
\* rotate_count are pruned even if the appender never rotates.
C28_InitialRetentionPass ==
    /\ [][(ret.pc = "recv" /\ ~ret.done /\ ret' # ret) =>
              /\ ~Head(chan).has
              /\ ret'.pc # "compress"]_vars
    /\ (built ~> InitialPassPruned)

\* the worker record r is past the compression stage of handle_old_files:
\* at read_dir, or back in recv() when rotate_count is 0
AtPruning(r) ==
    IF config.rotate_count = 0 THEN r.pc = "recv" /\ r.done ELSE r.pc = "list"

\* C29: a retention pass compresses the file it was handed if and only if a
\* file was handed over, config.compress is true and rotate_count != 1; a
\* compression of path P creates "P.gz" and then removes P, and when "P.gz"
\* exists already it changes neither; a compression that fails or is skipped
\* is followed by the pruning step of the same pass, after which the worker
\* receives again.
C29_CompressionOfHandedFile ==
    [][/\ (ret.pc = "recv" /\ Len(chan') < Len(chan)) =>
             /\ ret'.pc = "compress" <=>
                   (Head(chan).has /\ config.compress /\ config.rotate_count # 1)
             /\ ret'.pc = "compress" => ret'.ev = Head(chan)
             /\ ret'.pc # "compress" => AtPruning(ret')
             /\ dir' = dir
       /\ (ret.pc = "compress" /\ ret'.pc # "compress") =>
             IF Exists(dir, ret.ev.file) /\ ~Exists(dir, GzName(ret.ev.file))
             THEN /\ Names(dir') = Names(dir) \cup {GzName(ret.ev.file)}
                  /\ ret'.pc = "unlink"
             ELSE /\ dir' = dir
                  /\ fsize' = fsize
                  /\ AtPruning(ret')
       /\ (ret.pc = "unlink" /\ ret'.pc # "unlink") =>
             /\ dir' = RemoveName(dir, ret.ev.file)
             /\ AtPruning(ret')
       /\ \A e \in dir' \ dir : e.name.gz =>
             /\ ret.pc = "compress"
             /\ e.name = GzName(ret.ev.file)
             /\ config.compress /\ config.rotate_count # 1]_vars

\* C29 witness: the worker has compressed a rotated file: "P.gz" was made by
\* this run, P is gone, and the pass has gone on to its pruning step
C29_Compressed ==
    /\ ret.pc = "list"
    /\ ret.ev.has
    /\ Exists(dir, GzName(ret.ev.file))
    /\ ~Exists(dir, ret.ev.file)
    /\ InoOf(dir, GzName(ret.ev.file)) > Cardinality(PreExisting)

InScope(scope, i) == \E j \in 1..Len(scope) : scope[j] = i

\* C30: when an event is emitted, the field cache of every span of its scope
\* is moved into the event's line and the span's cache slot is empty
\* afterwards; no other step takes a field out of a cache, so each field
\* captured on a span, at creation or by a later record, is printed in at
\* most one line; a field recorded on a span whose cache an event has taken
\* makes the cache anew, holding that field alone, for the next event.
C30_FieldCacheMovedOnce ==
    [][/\ ncalls' = ncalls + 1 =>
             LET scope == from_root(spans, CurrentSpan)
                 own == [j \in 1..Len(line'.event.fields) |->
                           record_str(line'.event.fields[j])]
                 moved == Flatten([j \in 1..Len(scope) |->
                                     spans[scope[j]].cache.fields])
             IN /\ Len(line'.kvs) = Len(own) + Len(moved)
                /\ \A i \in 1..Len(line'.kvs) :
                      Count(line'.kvs, line'.kvs[i]) =
                         Count(own, line'.kvs[i]) + Count(moved, line'.kvs[i])
                /\ Len(spans') = Len(spans)
                /\ \A i \in 1..Len(spans) :
                      IF InScope(scope, i)
                      THEN /\ ~spans'[i].cache.has
                           /\ spans'[i].cache.fields = <<>>
                      ELSE spans'[i] = spans[i]
       /\ ncalls' = ncalls =>
             \A i \in 1..Len(spans) :
                LET old == spans[i].cache.fields
                    new == spans'[i].cache.fields
                IN /\ Len(new) >= Len(old)
                   /\ SubSeq(new, 1, Len(old)) = old
                   /\ (~spans[i].cache.has /\ spans'[i].cache.has) =>
                         Len(new) = 1]_vars

\* C30 witness: the second event of a span prints the field recorded on the
\* span since the first, and nothing of what the first had printed; the
\* span's cache is empty again
C30_Witness ==
    /\ ncalls = 2
    /\ line.has
    /\ line.kvs = <<record_str(LateField)>>
    /\ Len(spans) = 1
    /\ entered = <<1>>
    /\ ~spans[1].cache.has

\* C31: build creates the configured log directory, with its missing
\* parents, whenever it is not a directory, for an absolute and for a
\* relative log_dir alike, and goes on; it fails, with CreateLogDir, only
\* when the creation itself fails.
C31_CreatesMissingLogDir ==
    result.fn = "build_log_dir" =>
        LET loc == Resolve(arg.log_dir)
        IN IF loc \in arg.tree.dirs
           THEN result.outcome = "Ok" /\ result.tree = arg.tree
           ELSE IF create_dir_all(arg.tree, arg.log_dir).ok
           THEN /\ result.outcome = "Ok"
                /\ Prefixes(loc) \subseteq result.tree.dirs
           ELSE result.outcome = "CreateLogDir"

\* the file with the number i is in the directory, under whatever name
Linked(i) == \E e \in dir : e.ino = i

\* C32: the retention worker never removes, by pruning or by compressing,
\* the file that is the appender's open writer: with rotate_count >= 1 and
\* nothing removed from outside, an event or marker that is written goes to
\* a file that is still in the directory, and no step of the worker takes
\* the file of the shared writer out of the directory once the writer has
\* been installed by the last rotation.
C32_WriterFileStaysLinked ==
    [][(config.rotate_count >= 1 /\ extRemoved' = 0) =>
          /\ \A t \in Threads :
                (pc[t] \in {"have", "mark"} /\ fsize' # fsize) => Linked(wr[t])
          /\ (ret.pc \in {"unlink", "delete"} /\
              \A t \in Threads : pc[t] \notin {"send", "swap"}) =>
                \A e \in dir \ dir' : e.ino # writer]_vars

\* thread t waits for the state lock, for room in the retention channel or
\* for the writer lock
Blocked(t) ==
    \/ pc[t] = "rotate" /\ ~StateLockFree
    \/ pc[t] = "send" /\ Len(chan) >= ChannelCap
    \/ pc[t] = "swap" /\ \E u \in Threads : HoldsGuard(u)

InCall(t) == pc[t] \notin {"idle", "have", "null"}

\* the retention worker waits in recv() on an empty channel
WorkerWaits == ret.pc = "recv" /\ chan = <<>>

\* some thread is blocked and nothing is left that could release it: every
\* other thread is blocked or outside any call, and the worker waits
Deadlocked ==
    /\ \E t \in Threads : Blocked(t)
    /\ \A t \in Threads : Blocked(t) \/ pc[t] = "idle"
    /\ WorkerWaits

\* C33: with any number of threads in make_writer_for while the retention
\* worker runs, there is no state in which every thread, the worker
\* included, is blocked on the state lock, the writer lock or the retention
\* channel, and under fair scheduling every make_writer_for call eventually
\* returns a writer.
C33_NoDeadlockCallsReturn ==
    /\ []~Deadlocked
    /\ \A t \in Threads : InCall(t) ~> ~InCall(t)

\* two different entries of the appender's grammar with the same (date, seq)
Tied(e, f) ==
    /\ e # f
    /\ InGrammar(config, e.name)
    /\ InGrammar(config, f.name)
    /\ Parsed(e.name) = Parsed(f.name)

\* C34: no two files of the directory that match the appender's component
\* and instance share a (date, seq) pair, the moment between the two steps
\* of a compression apart: build and rotate never create a live file whose
\* (date, seq) is that of an existing live or .gz file, so the retention
\* order of two files is never a tie.
C34_NoSharedDateSeq ==
    /\ [](ret.pc # "unlink" => \A e, f \in dir : ~Tied(e, f))
    /\ [][\A e \in dir' \ dir : ~e.name.gz => \A f \in dir : ~Tied(e, f)]_vars

\* C35: under any interleaving of make_writer_for calls and changes of the
\* free space, the marker lines are in the log in strictly alternating order
\* and start with a downgrade marker, the order in which the flag changed.
C35_MarkersAlternate ==
    \A i \in 1..Len(markers) :
        markers[i] = IF i % 2 = 1 THEN "down" ELSE "up"

====
